---- MODULE Spec2Model ----
(***************************************************************************)
(* Verification model of the lead-gen job engine: the job store            *)
(* (JobRepository), the Celery worker tasks (verify_leads_batch,           *)
(* verify_emails_batch, scrape_batch_profiles), the API handlers that      *)
(* submit and cancel jobs, and the MailTester.ninja verifier's sliding     *)
(* window rate limiter.                                                    *)
(*                                                                         *)
(* Four specifications share the module:                                    *)
(*   Spec         the job engine (store, broker, workers, cancel);         *)
(*   LimiterSpec  one MailTesterNinjaVerifier and the coroutines that      *)
(*                call verify on it, one call at a time;                   *)
(*   GatherSpec   the same verifier shared by concurrent coroutines;       *)
(*   DecoderSpec  _parse_response applied to the vendor's answers.         *)
(***************************************************************************)
EXTENDS Integers, Sequences, FiniteSets, TLC

VARIABLES
    rows,          \* ids of the async_jobs rows that are committed
    store,         \* job id -> the row's columns (read only when id \in rows or id \in uncommitted)
    uncommitted,   \* ids created (flushed) by an API request whose session has not committed yet
    broker,        \* dequeue signals sent with .delay(): <<task name, job id>>
    pc,            \* worker -> position of the task it runs
    wk,            \* worker -> local variables of _process_job
    webhooks,      \* number of webhook POSTs issued
    cancelledMidRun, \* history: cancel committed while a worker task of the job was mid-run
    now,           \* LimiterSpec: time.time() * 1000
    timestamps,    \* LimiterSpec: MailTesterNinjaVerifier._request_timestamps
    co,            \* LimiterSpec: coroutine -> state of its verify call
    settings,      \* the worker process's settings (mailtester_ninja_api_key configured or not)
    issued,        \* LimiterSpec: history of recorded requests still younger than the window
    data,          \* DecoderSpec: the vendor answer (response.json()) given to _parse_response
    decoded,       \* DecoderSpec: << >>, or the one-element sequence of the decoder's result
    call,          \* PermutatorSpec: the arguments of the generate call
    generated,     \* PermutatorSpec: << >>, or the one-element sequence of generate's list
    detected,      \* PermutatorSpec: << >>, or <<[k, pattern]>>: detect_pattern on generated[k]
    tasks,         \* task id -> the job_tasks row (NoTask: no such row)
    retried,       \* << >>, or <<n>> when the last repository call was retry_failed_tasks returning n
    cache,         \* FinderSpec: CompanyDomainFinder._cache, cache key -> Miss, NoDomain or a domain
    fd,            \* FinderSpec: coroutine -> state of its find_domain call
    fcalls,        \* FinderSpec: number of find_domain calls made
    probes,        \* FinderSpec: history, the bases given to _has_valid_mx
    returns,       \* FinderSpec: history, cache key -> results find_domain has returned
    raced,         \* FinderSpec: history, cache keys two calls have probed for at the same time
    response,      \* the HTTP response of the API request handled in the last step (NoResponse: none)
    gs             \* ScraperSpec: state of the process_member_urls generator

jobVars == <<rows, store, uncommitted, broker, pc, wk, webhooks, cancelledMidRun, settings>>
limVars == <<now, timestamps, co, issued>>
decVars == <<data, decoded>>
permVars == <<call, generated, detected>>
taskVars == <<tasks, retried>>
serviceVars == <<cache, fd, fcalls, probes, returns, raced>>
apiVars == <<response>>
scraperVars == <<gs>>
vars == <<rows, store, uncommitted, broker, pc, wk, webhooks, cancelledMidRun, settings,
          now, timestamps, co, issued, data, decoded, call, generated, detected,
          tasks, retried, cache, fd, fcalls, probes, returns, raced,
          response, gs>>

None == "None"

(***************************************************************************)
(* Small helpers on sequences.                                             *)
(***************************************************************************)
Contains(s, x) == \E k \in 1..Len(s) : s[k] = x

EndsWith(s, suf) ==
    /\ Len(s) >= Len(suf)
    /\ SubSeq(s, Len(s) - Len(suf) + 1, Len(s)) = suf

\* list.remove(x): drops the first occurrence of x
RemoveFirst(s, x) ==
    LET k == CHOOSE k \in 1..Len(s) : s[k] = x /\ \A m \in 1..(k-1) : s[m] # x
    IN SubSeq(s, 1, k-1) \o SubSeq(s, k+1, Len(s))

(***************************************************************************)
(* JobStatus, models/job.py                                                *)
(***************************************************************************)
JobStatus == {"pending", "queued", "running", "paused", "completed", "failed", "cancelled"}

TerminalStatus == {"completed", "failed", "cancelled"}

(***************************************************************************)
(* EmailPermutator, services/enrichment/email_verifier.py.                 *)
(* Names are sequences of one-character strings.                           *)
(***************************************************************************)
COMMON_PATTERNS == <<"{first}.{last}", "{f}{last}", "{f}.{last}", "{first}",
                     "{first}{last}", "{first}_{last}", "{first}{l}", "{last}.{first}">>

Letters == {"a", "b", "d", "i", "j", "l", "o", "r", "s", "v", "A"}

\* str.lower(): the model's alphabet has one upper-case letter
LowerChar(c) == IF c = "A" THEN "a" ELSE c

lower(s) == [k \in 1..Len(s) |-> LowerChar(s[k])]

RECURSIVE lstrip(_, _)
lstrip(s, ch) == IF s # << >> /\ Head(s) = ch THEN lstrip(Tail(s), ch) ELSE s

RECURSIVE rstrip(_, _)
rstrip(s, ch) ==
    IF s # << >> /\ s[Len(s)] = ch THEN rstrip(SubSeq(s, 1, Len(s) - 1), ch) ELSE s

strip(s, ch) == rstrip(lstrip(s, ch), ch)

NAME_SUFFIXES == << <<" ", "j", "r">>, <<" ", "s", "r">>, <<" ", "i", "i", "i">>,
                    <<" ", "i", "i">>, <<" ", "i", "v">> >>

RECURSIVE StripSuffixes(_, _)
StripSuffixes(name, k) ==
    IF k > Len(NAME_SUFFIXES) THEN name
    ELSE LET suf == NAME_SUFFIXES[k]
         IN StripSuffixes(IF EndsWith(name, suf)
                          THEN SubSeq(name, 1, Len(name) - Len(suf))
                          ELSE name, k + 1)

RECURSIVE CleanChars(_)
CleanChars(name) ==
    IF name = << >> THEN << >>
    ELSE LET c == Head(name)
         IN IF c \in Letters \/ c = "-" THEN <<c>> \o CleanChars(Tail(name))
            ELSE IF c = " " THEN <<"-">> \o CleanChars(Tail(name))
            ELSE CleanChars(Tail(name))

_normalize_name(name) == strip(CleanChars(StripSuffixes(name, 1)), "-")

\* pattern.format(first=..., last=..., f=first[0] if first else "", l=...)
FormatPattern(pattern, first, last) ==
    LET f == IF first # << >> THEN <<first[1]>> ELSE << >>
        l == IF last # << >> THEN <<last[1]>> ELSE << >>
    IN CASE pattern = "{first}.{last}" -> first \o <<".">> \o last
         [] pattern = "{f}{last}"      -> f \o last
         [] pattern = "{f}.{last}"     -> f \o <<".">> \o last
         [] pattern = "{first}"        -> first
         [] pattern = "{first}{last}"  -> first \o last
         [] pattern = "{first}_{last}" -> first \o <<"_">> \o last
         [] pattern = "{first}{l}"     -> first \o l
         [] pattern = "{last}.{first}" -> last \o <<".">> \o first

\* an address is the pair local part, domain
_apply_pattern(pattern, first, last, domain) ==
    [local |-> FormatPattern(pattern, first, last), domain |-> domain]

RECURSIVE GenerateFrom(_, _, _, _, _)
GenerateFrom(k, first, last, domain, permutations) ==
    IF k > Len(COMMON_PATTERNS) THEN permutations
    ELSE LET email == _apply_pattern(COMMON_PATTERNS[k], first, last, domain)
         IN GenerateFrom(k + 1, first, last, domain,
                         IF ~Contains(permutations, email)
                         THEN Append(permutations, email) ELSE permutations)

\* generate() of a permutator built without known_patterns (as the workers build it)
generate(first_name, last_name, domain, max_permutations) ==
    LET first == _normalize_name(strip(lower(first_name), " "))
        last  == _normalize_name(strip(lower(last_name), " "))
    IN IF first = << >> \/ last = << >> \/ domain = "" THEN << >>
       ELSE LET all == GenerateFrom(1, first, last, domain, << >>)
            IN SubSeq(all, 1, IF Len(all) < max_permutations THEN Len(all)
                              ELSE max_permutations)

RECURSIVE DetectFrom(_, _, _, _)
DetectFrom(k, local_part, first, last) ==
    IF k > Len(COMMON_PATTERNS) THEN None
    ELSE IF local_part = FormatPattern(COMMON_PATTERNS[k], first, last)
         THEN COMMON_PATTERNS[k]
         ELSE DetectFrom(k + 1, local_part, first, last)

\* detect_pattern on the names as given, without lower, strip and _normalize_name
detect_pattern_Raw(email, first_name, last_name) ==
    DetectFrom(1, lower(email.local), first_name, last_name)

detect_pattern(email, first_name, last_name) ==
    LET first == _normalize_name(strip(lower(first_name), " "))
        last  == _normalize_name(strip(lower(last_name), " "))
    IN DetectFrom(1, lower(email.local), first, last)

DEFAULT_MAX_PERMUTATIONS == 13

\* generate() returning the whole list, without the cut to max_permutations
generate_known_NotCut(known_pattern, first_name, last_name, domain, max_permutations) ==
    LET first == _normalize_name(strip(lower(first_name), " "))
        last  == _normalize_name(strip(lower(last_name), " "))
        start == IF known_pattern # None
                 THEN <<_apply_pattern(known_pattern, first, last, domain)>> ELSE << >>
    IN IF first = << >> \/ last = << >> \/ domain = "" THEN << >>
       ELSE GenerateFrom(1, first, last, domain, start)

\* generate() of a permutator whose known_patterns holds known_pattern for the
\* domain (None: the domain is not in known_patterns)
generate_known(known_pattern, first_name, last_name, domain, max_permutations) ==
    LET first == _normalize_name(strip(lower(first_name), " "))
        last  == _normalize_name(strip(lower(last_name), " "))
        start == IF known_pattern # None
                 THEN <<_apply_pattern(known_pattern, first, last, domain)>> ELSE << >>
    IN IF first = << >> \/ last = << >> \/ domain = "" THEN << >>
       ELSE LET all == GenerateFrom(1, first, last, domain, start)
            IN SubSeq(all, 1, IF Len(all) < max_permutations THEN Len(all)
                              ELSE max_permutations)

NoCall == [known_pattern |-> None, first_name |-> << >>, last_name |-> << >>,
           domain |-> "", max_permutations |-> DEFAULT_MAX_PERMUTATIONS]

PermutatorIdle == call = NoCall /\ generated = << >> /\ detected = << >>

(***************************************************************************)
(* CompanyDomainFinder, services/enrichment/domain_finder.py.              *)
(* Company names and words are sequences of one-character strings.         *)
(***************************************************************************)
DOMAIN_SUFFIXES == <<".com", ".io", ".co", ".net", ".org", ".ai", ".dev">>

NOISE_WORDS ==
    { <<"i", "n", "c">>,
      <<"i", "n", "c", ".">>,
      <<"i", "n", "c", "o", "r", "p", "o", "r", "a", "t", "e", "d">>,
      <<"c", "o", "r", "p">>,
      <<"c", "o", "r", "p", ".">>,
      <<"c", "o", "r", "p", "o", "r", "a", "t", "i", "o", "n">>,
      <<"l", "l", "c">>,
      <<"l", "l", "c", ".">>,
      <<"l", "t", "d">>,
      <<"l", "t", "d", ".">>,
      <<"l", "i", "m", "i", "t", "e", "d">>,
      <<"c", "o">>,
      <<"c", "o", ".">>,
      <<"c", "o", "m", "p", "a", "n", "y">>,
      <<"c", "o", "m", "p", "a", "n", "i", "e", "s">>,
      <<"g", "r", "o", "u", "p">>,
      <<"h", "o", "l", "d", "i", "n", "g", "s">>,
      <<"p", "l", "c">>,
      <<"t", "h", "e">>,
      <<"a", "n", "d">>,
      <<"&">>,
      <<"t", "e", "c", "h", "n", "o", "l", "o", "g", "i", "e", "s">>,
      <<"t", "e", "c", "h", "n", "o", "l", "o", "g", "y">>,
      <<"t", "e", "c", "h">>,
      <<"s", "o", "l", "u", "t", "i", "o", "n", "s">>,
      <<"s", "e", "r", "v", "i", "c", "e", "s">>,
      <<"c", "o", "n", "s", "u", "l", "t", "i", "n", "g">>,
      <<"p", "a", "r", "t", "n", "e", "r", "s">>,
      <<"l", "a", "b", "s">> }

\* the characters [a-z0-9] that _clean_word keeps
AlnumChars ==
    {"a", "b", "c", "d", "e", "f", "g", "h", "i", "j", "k", "l", "m", "n", "o", "p", "q",
     "r", "s", "t", "u", "v", "w", "x", "y", "z",
     "0", "1", "2", "3", "4", "5", "6", "7", "8", "9"}

\* re.sub(r"[^a-z0-9]", "", word.lower())
_clean_word(word) == SelectSeq(lower(word), LAMBDA ch : ch \in AlnumChars)

\* str.split(): the words between runs of blanks
RECURSIVE SplitWords(_, _, _)
SplitWords(s, word, words) ==
    IF s = << >> THEN (IF word = << >> THEN words ELSE Append(words, word))
    ELSE IF Head(s) = " "
         THEN SplitWords(Tail(s), << >>, IF word = << >> THEN words ELSE Append(words, word))
         ELSE SplitWords(Tail(s), Append(word, Head(s)), words)

split(s) == SplitWords(s, << >>, << >>)

RECURSIVE JoinCleaned(_)
JoinCleaned(words) ==
    IF words = << >> THEN << >> ELSE _clean_word(Head(words)) \o JoinCleaned(Tail(words))

\* _normalize_company_name: the candidate bases of a company name
_normalize_company_name(name) ==
    LET words == split(strip(lower(name), " "))
        kept == SelectSeq(words, LAMBDA w : lower(w) \notin NOISE_WORDS)
        filtered_words == IF kept = << >> THEN words ELSE kept
        concatenated == JoinCleaned(filtered_words)
        bases1 == IF filtered_words # << >> /\ concatenated # << >> /\ Len(concatenated) >= 3
                  THEN <<concatenated>> ELSE << >>
        first_word == IF filtered_words # << >> THEN _clean_word(filtered_words[1]) ELSE << >>
        bases2 == IF /\ filtered_words # << >> /\ first_word # << >>
                     /\ Len(first_word) >= 3 /\ ~Contains(bases1, first_word)
                  THEN Append(bases1, first_word) ELSE bases1
        two_words == IF Len(filtered_words) >= 2
                     THEN _clean_word(filtered_words[1]) \o _clean_word(filtered_words[2])
                     ELSE << >>
    IN IF Len(filtered_words) >= 2 /\ two_words # << >> /\ ~Contains(bases2, two_words)
       THEN Append(bases2, two_words) ELSE bases2

\* company names given to find_domain
CompanyNames ==
    { <<"A", "d", "a", " ", "l", "a", "b", "s">>,
      <<" ", "a", "d", "a", " ", "l", "a", "b", "s", " ">>,
      <<"a", " ", "b">>,
      <<"b", "o", " ", "&", " ", "c", "o", ".">>,
      <<" ">> }

\* not company_name or not company_name.strip()
Blank(name) == strip(name, " ") = << >>

\* cache_key = company_name.lower().strip()
CacheKey(name) == strip(lower(name), " ")

CacheKeys == {CacheKey(name) : name \in {n \in CompanyNames : ~Blank(n)}}

Domain(base, suffix) == [base |-> base, suffix |-> suffix]

\* no entry in the cache
Miss == Domain(<< >>, "miss")

\* the result None: no domain found
NoDomain == Domain(<< >>, None)

\* horizon of the number of find_domain calls
MaxFinderCalls == 3

\* hit: the result was read from the cache
IdleFinder == [pc |-> "idle", company_name |-> << >>, bases |-> << >>, b |-> 0, s |-> 0,
               result |-> NoDomain, hit |-> FALSE]

\* a name without a domain is left out of the cache
NotFoundEntry_Uncached == Miss

\* self._cache[cache_key] = None
NotFoundEntry == NoDomain

FinderIdle ==
    /\ cache = [k \in CacheKeys |-> Miss]
    /\ fd = [c \in {"c1", "c2"} |-> IdleFinder]
    /\ fcalls = 0 /\ probes = {}
    /\ returns = [k \in CacheKeys |-> {}]
    /\ raced = {}

\* a return statement of find_domain
ReturnDomain(c, name, result, hit) ==
    /\ fd' = [fd EXCEPT ![c] = [IdleFinder EXCEPT !.pc = "returned", !.company_name = name,
                                                  !.result = result, !.hit = hit]]
    /\ returns' = IF Blank(name) THEN returns
                  ELSE [returns EXCEPT ![CacheKey(name)] = @ \cup {result}]

\* lines 64-81: find_domain up to its first MX probe
find_domain_Call(c, name) ==
    /\ fd[c].pc = "idle" /\ fcalls < MaxFinderCalls
    /\ fcalls' = fcalls + 1
    /\ IF Blank(name)
       THEN ReturnDomain(c, name, NoDomain, FALSE) /\ UNCHANGED <<cache, raced>>
       ELSE IF cache[CacheKey(name)] # Miss
       THEN ReturnDomain(c, name, cache[CacheKey(name)], TRUE) /\ UNCHANGED <<cache, raced>>
       ELSE LET domain_bases == _normalize_company_name(name)
            IN IF domain_bases = << >>
               THEN /\ cache' = [cache EXCEPT ![CacheKey(name)] = NotFoundEntry]
                    /\ ReturnDomain(c, name, NoDomain, FALSE)
                    /\ UNCHANGED raced
               ELSE /\ fd' = [fd EXCEPT ![c] = [IdleFinder EXCEPT !.pc = "probing",
                                    !.company_name = name, !.bases = domain_bases,
                                    !.b = 1, !.s = 1]]
                    /\ raced' = IF \E o \in DOMAIN fd :
                                      /\ o # c /\ fd[o].pc = "probing"
                                      /\ CacheKey(fd[o].company_name) = CacheKey(name)
                                THEN raced \cup {CacheKey(name)} ELSE raced
                    /\ UNCHANGED <<cache, returns>>
    /\ UNCHANGED probes

\* what _has_valid_mx may answer for a domain: True when MX records are
\* resolved, False when there are none and when the lookup times out or fails
MxAnswers(domain) == BOOLEAN

\* lines 83-98: one pass of the loops over bases and suffixes; has_mx is what
\* _has_valid_mx answers (False also on a DNS timeout or error)
find_domain_Probe(c, has_mx) ==
    /\ fd[c].pc = "probing"
    /\ has_mx \in MxAnswers(Domain(fd[c].bases[fd[c].b], DOMAIN_SUFFIXES[fd[c].s]))
    /\ LET name == fd[c].company_name
           base == fd[c].bases[fd[c].b]
           domain == Domain(base, DOMAIN_SUFFIXES[fd[c].s])
       IN /\ probes' = probes \cup {base}
          /\ IF has_mx
             THEN /\ cache' = [cache EXCEPT ![CacheKey(name)] = domain]
                  /\ ReturnDomain(c, name, domain, FALSE)
             ELSE IF fd[c].s < Len(DOMAIN_SUFFIXES)
             THEN /\ fd' = [fd EXCEPT ![c].s = fd[c].s + 1]
                  /\ UNCHANGED <<cache, returns>>
             ELSE IF fd[c].b < Len(fd[c].bases)
             THEN /\ fd' = [fd EXCEPT ![c].b = fd[c].b + 1, ![c].s = 1]
                  /\ UNCHANGED <<cache, returns>>
             ELSE /\ cache' = [cache EXCEPT ![CacheKey(name)] = NotFoundEntry]
                  /\ ReturnDomain(c, name, NoDomain, FALSE)
    /\ UNCHANGED <<fcalls, raced>>

\* the caller has the result
find_domain_Returned(c) ==
    /\ fd[c].pc = "returned"
    /\ fd' = [fd EXCEPT ![c] = IdleFinder]
    /\ UNCHANGED <<cache, fcalls, probes, returns, raced>>

(***************************************************************************)
(* LinkedInGroupScraperService.process_member_urls,                        *)
(* services/scraping/group_scraper.py.                                     *)
(***************************************************************************)
\* the locals of one process_member_urls call and of the "async for" loop of
\* scrape_batch_profiles that consumes it
IdleScraper == [pc |-> "idle", urls |-> << >>, enrich_profiles |-> TRUE, find_emails |-> TRUE,
                batch_size |-> 0, i |-> 0, enriched_profiles |-> << >>,
                k |-> 0, yielded |-> << >>, processed |-> 0, failed |-> 0]

ScraperIdle == gs = IdleScraper

\* url.split("?")[0]
BeforeQuery(url) ==
    LET qs == {k \in 1..Len(url) : url[k] = "?"}
    IN IF qs = {} THEN url
       ELSE SubSeq(url, 1, (CHOOSE k \in qs : \A m \in qs : k <= m) - 1)

\* lines 315-320
_normalize_linkedin_url(url) == BeforeQuery(rstrip(strip(url, " "), "/"))

\* an EnrichedMember, by the fields the pipeline and its consumer test; an
\* exception that asyncio.gather returned in the member's place has raised = TRUE
EnrichedMember(linkedin_url, first_name, company_domain) ==
    [raised |-> FALSE, linkedin_url |-> linkedin_url, first_name |-> first_name,
     company_domain |-> company_domain, email |-> FALSE]

Raised(linkedin_url) ==
    [raised |-> TRUE, linkedin_url |-> linkedin_url, first_name |-> FALSE,
     company_domain |-> FALSE, email |-> FALSE]

\* lines 170-238: what _enrich_single_profile may produce for a URL: an
\* exception of the HTTP call or of response.json(), the bare member of a
\* non-200 answer, or a member with or without first name and company domain
EnrichOutcomes(url) ==
    LET linkedin_url == _normalize_linkedin_url(url)
    IN {Raised(linkedin_url)}
       \cup {EnrichedMember(linkedin_url, f, d) : f \in BOOLEAN, d \in BOOLEAN}

ScraperUrls == << <<"a">>, <<" ", "b", "/">>, <<"c", "?", "x">> >>

ScraperUrlLists == { SubSeq(ScraperUrls, 1, n) : n \in 1..3 }

BatchSizes == {2, 50}

\* lines 103-131: the call, up to the first batch
process_member_urls_Call(urls, enrich_profiles, find_emails, batch_size) ==
    /\ gs.pc = "idle"
    /\ gs' = [IdleScraper EXCEPT !.pc = "batch", !.urls = urls,
                                 !.enrich_profiles = enrich_profiles,
                                 !.find_emails = find_emails, !.batch_size = batch_size]

\* urls[i:i + batch_size]
Batch(loc) ==
    SubSeq(loc.urls, loc.i + 1,
           IF loc.i + loc.batch_size < Len(loc.urls) THEN loc.i + loc.batch_size
           ELSE Len(loc.urls))

\* lines 133-154: one batch is enriched: asyncio.gather(..., return_exceptions=True)
\* returns, per URL of the batch and in its order, the member or the exception
process_member_urls_Gather(outcomes) ==
    /\ gs.pc = "batch" /\ gs.i < Len(gs.urls)
    /\ LET batch == Batch(gs) IN
       /\ DOMAIN outcomes = 1..Len(batch)
       /\ IF gs.enrich_profiles
          THEN \A k \in 1..Len(batch) : outcomes[k] \in EnrichOutcomes(batch[k])
          ELSE \A k \in 1..Len(batch) : outcomes[k] = EnrichedMember(batch[k], FALSE, FALSE)
       /\ gs' = [gs EXCEPT !.pc = "emails", !.enriched_profiles = outcomes, !.k = 0]

\* lines 157-160: "if isinstance(profile, Exception): ...; continue"
NextProfile(profile) == profile.raised

\* lines 156-165 of process_member_urls and 147-170 of scrape_batch_profiles:
\* one pass of "for profile in enriched_profiles": an exception is skipped;
\* a member with a company domain goes through _find_email_for_profile, which
\* may set its email when it has a first name; the member is yielded and the
\* consumer counts it processed when it has a first name or an email, failed
\* otherwise
process_member_urls_Profile(email) ==
    /\ gs.pc = "emails" /\ gs.k < Len(gs.enriched_profiles)
    /\ LET profile == gs.enriched_profiles[gs.k + 1]
           searched == gs.find_emails /\ profile.company_domain /\ profile.first_name
           member == [profile EXCEPT !.email = searched /\ email]
       IN IF NextProfile(profile)
          THEN /\ ~email
               /\ gs' = [gs EXCEPT !.k = gs.k + 1]
          ELSE /\ (~searched => ~email)
               /\ gs' = [gs EXCEPT !.k = gs.k + 1,
                                   !.yielded = Append(gs.yielded, member),
                                   !.processed = IF member.first_name \/ member.email
                                                 THEN gs.processed + 1 ELSE gs.processed,
                                   !.failed = IF member.first_name \/ member.email
                                              THEN gs.failed ELSE gs.failed + 1]

\* lines 167-168: the sleep after a batch, then the next batch
process_member_urls_EndBatch ==
    /\ gs.pc = "emails" /\ gs.k = Len(gs.enriched_profiles)
    /\ gs' = [gs EXCEPT !.pc = "batch", !.i = gs.i + gs.batch_size,
                        !.enriched_profiles = << >>, !.k = 0]

\* the generator is exhausted: range(0, len(urls), batch_size) has no further start
process_member_urls_Return ==
    /\ gs.pc = "batch" /\ gs.i >= Len(gs.urls)
    /\ gs' = [gs EXCEPT !.pc = "done"]

(***************************************************************************)
(* JobTask, models/job.py, and the task methods of JobRepository,          *)
(* repositories/job_repo.py.                                               *)
(***************************************************************************)
TaskIds == {"t1", "t2"}

\* the values of job_tasks.job_id: job j1 and another job's id
TaskJobIds == {"j1", "j2"}

DEFAULT_MAX_ATTEMPTS == 3

\* horizon of the attempts counter
MaxTaskAttempts == 4

NoTask == [job_id |-> None, status |-> None, attempts |-> 0, max_attempts |-> 0]

TasksIdle == tasks = [t \in TaskIds |-> NoTask] /\ retried = << >>

\* JobRepository.create_task: JobTask(job_id=..., status=PENDING) with the column defaults
create_task(t, j) ==
    /\ tasks[t] = NoTask
    /\ tasks' = [tasks EXCEPT ![t] = [job_id |-> j, status |-> "pending", attempts |-> 0,
                                      max_attempts |-> DEFAULT_MAX_ATTEMPTS]]
    /\ retried' = << >>

\* JobRepository.update_task_status
update_task_status(t, status) ==
    /\ tasks[t] # NoTask
    /\ tasks[t].attempts < MaxTaskAttempts
    /\ tasks' = [tasks EXCEPT ![t].status = status, ![t].attempts = tasks[t].attempts + 1]
    /\ retried' = << >>

\* every failed task is retried, whatever its attempts
CanRetry_IgnoresAttempts(task) == task.status = "failed"

\* the where clause of retry_failed_tasks (JobTask.can_retry)
CanRetry(task) == task.status = "failed" /\ task.attempts < task.max_attempts

\* JobRepository.retry_failed_tasks: returns len(retried_ids)
retry_failed_tasks(j) ==
    LET retried_ids == {t \in TaskIds : tasks[t].job_id = j /\ CanRetry(tasks[t])}
    IN /\ tasks' = [t \in TaskIds |-> IF t \in retried_ids
                                       THEN [tasks[t] EXCEPT !.status = "pending"]
                                       ELSE tasks[t]]
       /\ retried' = <<Cardinality(retried_ids)>>

\* cancel's update without the status == PENDING condition
CancelPending_AnyStatus(ts, j) ==
    [t \in TaskIds |-> IF ts[t].job_id = j
                       THEN [ts[t] EXCEPT !.status = "cancelled"] ELSE ts[t]]

\* lines 152-158 of cancel: the job's pending tasks become cancelled
CancelPending(ts, j) ==
    [t \in TaskIds |-> IF ts[t].job_id = j /\ ts[t].status = "pending"
                       THEN [ts[t] EXCEPT !.status = "cancelled"] ELSE ts[t]]

(***************************************************************************)
(* MailTesterNinjaVerifier: the results of verify and the response decoder *)
(* _parse_response, services/enrichment/email_verifier.py.                 *)
(***************************************************************************)
VerificationResult(status, is_deliverable, is_catch_all, mx_found, reason, is_rate_limited) ==
    [status |-> status, is_deliverable |-> is_deliverable, is_catch_all |-> is_catch_all,
     mx_found |-> mx_found, reason |-> reason, is_rate_limited |-> is_rate_limited]

\* data.get("code"), data.get("message"), data.get("mx") of the vendor's answer;
\* None is a missing key or a JSON null
Codes == {"ok", "OK", "ko", "mb", "xx", None}
Messages == {"Accepted", "Limited", "Catch-All", "Rejected", "No Mx", "NO MX",
             "Mx Error", "Timeout", "SPAM Block", "Greylisted", "", None}
MxValues == {"mx.acme.com", "null", "", None}

VendorAnswers == [code : Codes, message : Messages, mx : MxValues]

\* (x or "")
OrEmpty(x) == IF x = None THEN "" ELSE x

\* str.lower() on the codes and messages above
StrLower(x) ==
    CASE x = "OK"         -> "ok"
      [] x = "Accepted"   -> "accepted"
      [] x = "Limited"    -> "limited"
      [] x = "Catch-All"  -> "catch-all"
      [] x = "Rejected"   -> "rejected"
      [] x = "No Mx"      -> "no mx"
      [] x = "NO MX"      -> "no mx"
      [] x = "Mx Error"   -> "mx error"
      [] x = "Timeout"    -> "timeout"
      [] x = "SPAM Block" -> "spam block"
      [] x = "Greylisted" -> "greylisted"
      [] OTHER            -> x

\* bool(mx)
Truthy(x) == x # None /\ x # ""

_parse_response(d) ==
    LET code == StrLower(OrEmpty(d.code))
        message == OrEmpty(d.message)
        message_lower == StrLower(message)
        mx == d.mx
    IN IF code = "ok" /\ message_lower = "accepted"
       THEN VerificationResult("valid", TRUE, FALSE, Truthy(mx), None, FALSE)
       ELSE IF code = "ok" /\ message_lower = "limited"
       THEN VerificationResult("valid", TRUE, FALSE, Truthy(mx),
                               "Valid but inbox has rate limits", FALSE)
       ELSE IF message_lower = "catch-all"
       THEN VerificationResult("catch_all", TRUE, TRUE, Truthy(mx),
                               "Catch-all domain - email may or may not exist", FALSE)
       ELSE IF code = "mb"
       THEN VerificationResult("catch_all", TRUE, TRUE, Truthy(mx),
                               "Unverifiable - server won't confirm mailbox existence", FALSE)
       ELSE IF code = "ko" \/ message_lower = "rejected"
       THEN VerificationResult("invalid", FALSE, FALSE, Truthy(mx),
                               "Email rejected by mail server", FALSE)
       ELSE IF message_lower = "no mx"
       THEN VerificationResult("invalid", FALSE, FALSE, FALSE,
                               "No MX records found for domain", FALSE)
       ELSE IF message_lower = "mx error"
       THEN VerificationResult("unknown", FALSE, FALSE, Truthy(mx),
                               "Could not connect to mail server", FALSE)
       ELSE IF message_lower = "timeout"
       THEN VerificationResult("unknown", FALSE, FALSE, Truthy(mx),
                               "Mail server timeout", FALSE)
       ELSE IF message_lower = "spam block"
       THEN VerificationResult("unknown", FALSE, FALSE, Truthy(mx),
                               "Verification blocked by spam filter", FALSE)
       ELSE IF ~Truthy(mx) \/ mx = "" \/ mx = "null"
       THEN VerificationResult("invalid", FALSE, FALSE, FALSE,
                               "No MX records found for domain", FALSE)
       ELSE IF code = "ok"
       THEN VerificationResult("valid", TRUE, FALSE, Truthy(mx),
                               IF message # "" THEN message ELSE None, FALSE)
       ELSE VerificationResult("unknown", FALSE, FALSE, Truthy(mx),
                               IF message # "" THEN message
                               ELSE "Unknown response: code=" \o code, FALSE)

\* the return after the third 429, lines 157-163
RateLimitedResult ==
    VerificationResult("unknown", FALSE, FALSE, FALSE,
                       "Rate limit exceeded after maximum retries", TRUE)

\* a timeout decoded as a service error instead of a dead candidate
ErrorResult_TimeoutUnknown(outcome) ==
    VerificationResult("unknown", FALSE, FALSE, FALSE, "Email validation timed out", FALSE)

\* the except clauses of verify, lines 170-197: httpx.TimeoutException,
\* httpx.HTTPStatusError (401/403, other status), any other Exception
ErrorResult(outcome) ==
    CASE outcome = "timeout" ->
            VerificationResult("invalid", FALSE, FALSE, FALSE, "Email validation timed out", FALSE)
      [] outcome \in {"401", "403"} ->
            VerificationResult("unknown", FALSE, FALSE, FALSE,
                               "Authentication failed with email validation service", FALSE)
      [] outcome = "500" ->
            VerificationResult("unknown", FALSE, FALSE, FALSE, "HTTP error: 500", FALSE)
      [] OTHER ->
            VerificationResult("unknown", FALSE, FALSE, FALSE, "connection reset", FALSE)

NoAnswer == [code |-> None, message |-> None, mx |-> None]

DecoderIdle == data = NoAnswer /\ decoded = << >>

(***************************************************************************)
(* Inputs of the job engine.                                               *)
(***************************************************************************)
JobIds == {"j1"}

\* executions of worker tasks, in the order the broker starts them
MaxDeliveries == 2

Workers == 1..MaxDeliveries

ada  == <<"A", "d", "a">>
bo   == <<"b", "o">>
digit == <<"1">>

\* lines 89-92 of verify_leads_batch (and _clean_domain of the API), on the
\* websites the model submits: strip, lower, drop scheme, drop www., drop trailing /
CleanDomain(website) ==
    CASE website = "acme.com"              -> "acme.com"
      [] website = "https://www.Acme.com/" -> "acme.com"
      [] website = "dead.test"             -> "dead.test"

Lead(f, l, w) == [first_name |-> f, last_name |-> l, website |-> w]

\* BatchVerifyRequest.leads has min_length = 1 and every field of LeadInput
\* has min_length = 1
LeadLists ==
    { << Lead(ada, bo, "acme.com") >>,
      << Lead(bo, ada, "dead.test"), Lead(ada, bo, "acme.com"), Lead(ada, bo, "dead.test") >>,
      << Lead(<<"b">>, <<"o">>, "acme.com"), Lead(<<"o">>, <<"b", "1">>, "https://www.Acme.com/"),
         Lead(digit, <<"o">>, "acme.com") >>,
      [k \in 1..10 |-> IF k < 10 THEN Lead(digit, bo, "acme.com")
                       ELSE Lead(bo, bo, "acme.com")],
      [k \in 1..11 |-> IF k < 11 THEN Lead(digit, bo, "acme.com")
                       ELSE Lead(bo, bo, "acme.com")] }

Address(l, d) == [local |-> l, domain |-> d]

EmailLists ==
    { << Address(ada, "acme.com") >>,
      << Address(ada, "acme.com"), Address(bo, "acme.com") >>,
      [k \in 1..10 |-> IF k < 10 THEN Address(bo, "dead.test")
                       ELSE Address(ada, "acme.com")] }

UrlLists == { << "in/johndoe" >>, << "in/johndoe", "in/janedoe" >> }

WebhookUrls == {None, "http://hook"}

\* str(e) of the exceptions a stage may raise; some exceptions have an empty str()
ErrorStrings == {"boom", ""}

(***************************************************************************)
(* VerificationResult values MailTesterNinjaVerifier.verify returns.       *)
(***************************************************************************)
VResult(st, deliv, ca, mx, reason) ==
    [status |-> st, is_deliverable |-> deliv, is_catch_all |-> ca,
     mx_found |-> mx, reason |-> reason]

R_VALID     == VResult("valid", TRUE, FALSE, TRUE, None)
R_CATCH_ALL == VResult("catch_all", TRUE, TRUE, TRUE, "Catch-all domain - email may or may not exist")
R_REJECTED  == VResult("invalid", FALSE, FALSE, TRUE, "Email rejected by mail server")
R_NO_MX     == VResult("invalid", FALSE, FALSE, FALSE, "No MX records found for domain")
R_TIMED_OUT == VResult("invalid", FALSE, FALSE, FALSE, "Email validation timed out")
R_UNKNOWN   == VResult("unknown", FALSE, FALSE, TRUE, "Could not connect to mail server")

\* what the vendor may answer for an address: a domain without MX records
\* always answers "No Mx"
VerifyOutcomes(email) ==
    IF email.domain = "dead.test" THEN {R_NO_MX}
    ELSE {R_VALID, R_CATCH_ALL, R_REJECTED, R_NO_MX, R_TIMED_OUT, R_UNKNOWN}

\* vendor answers with message "No Mx" under the codes the vendor uses
NoMxAnswers ==
    { [code |-> c, message |-> "No Mx", mx |-> None] : c \in {"ok", "ko", "mb"} }

\* what one verify call of the bulk-verify-leads stage may meet: the result
\* verify returns and whether the vendor's answer carried message "no mx"
VerifyProbes(email) ==
    IF email.domain = "dead.test" THEN {[no_mx |-> TRUE, result |-> R_NO_MX]}
    ELSE {[no_mx |-> FALSE, result |-> r] : r \in VerifyOutcomes(email) \ {R_NO_MX}}
         \cup {[no_mx |-> TRUE, result |-> _parse_response(a)] : a \in NoMxAnswers}
         \cup {[no_mx |-> FALSE, result |-> RateLimitedResult]}

\* a test for "No MX" that no reason passes
ReasonHasNoMX_Never(reason) == FALSE

\* "No MX" in result.reason
ReasonHasNoMX(reason) == reason = "No MX records found for domain"

(***************************************************************************)
(* JobRepository, repositories/job_repo.py.  A repository method works on  *)
(* the session's object for the row and flushes the attributes it changed; *)
(* the operators below map the session's object to its new value.          *)
(***************************************************************************)
\* JobRepository.create: the new row
create(job_type, config, total_items, webhook_url) ==
    [job_type |-> job_type, status |-> "pending", config |-> config,
     total_items |-> total_items, processed_items |-> 0, failed_items |-> 0,
     result |-> << >>, error_message |-> None,
     started_at |-> FALSE, completed_at |-> FALSE, webhook_url |-> webhook_url]

NoConfig == [leads |-> << >>, emails |-> << >>, linkedin_urls |-> << >>, member_urls |-> << >>,
             webhook_url |-> None]

BlankJob == create("none", NoConfig, 0, None)

(***************************************************************************)
(* HTTP responses of the API, api/v1/*.py                                  *)
(***************************************************************************)
\* request: the URL list of a scrape submission, kept with its response
NoResponse == [endpoint |-> None, code |-> 0, status |-> None, job_id |-> None, total |-> 0,
               format |-> None, profiles |-> << >>, request |-> << >>]

ApiIdle == response = NoResponse

\* the step is not an API request whose response is kept
Cleared == response' = NoResponse

\* BatchJobResponse, GroupScrapeResponse, BulkScrapeResponse: status="queued"
Queued(endpoint, j, total) ==
    [NoResponse EXCEPT !.endpoint = endpoint, !.code = 200, !.status = "queued",
                       !.job_id = j, !.total = total]

\* raise HTTPException(status_code=...)
HttpError(endpoint, code) == [NoResponse EXCEPT !.endpoint = endpoint, !.code = code]

\* the assignments of update_status to the session's object
update_status(job, status, error_message, result) ==
    LET j1 == [job EXCEPT !.status = status]
        j2 == IF status = "running" /\ ~j1.started_at
              THEN [j1 EXCEPT !.started_at = TRUE]
              ELSE IF status \in {"completed", "failed", "cancelled"}
                   THEN [j1 EXCEPT !.completed_at = TRUE]
                   ELSE j1
        j3 == IF error_message # None /\ error_message # ""
              THEN [j2 EXCEPT !.error_message = error_message] ELSE j2
    IN IF result # << >> THEN [j3 EXCEPT !.result = result] ELSE j3

\* update_progress that returns without assigning the counters
update_progress_Dropped(job, processed_items, failed_items) == job

\* the assignments of update_progress to the session's object
update_progress(job, processed_items, failed_items) ==
    [job EXCEPT !.processed_items = processed_items, !.failed_items = failed_items]

\* session.flush(): the UPDATE sets the columns whose attribute changed on the
\* session's object; the other columns of the row keep their stored value
Flush(row, before, after) ==
    [f \in DOMAIN row |-> IF after[f] # before[f] THEN after[f] ELSE row[f]]

(***************************************************************************)
(* API handlers: submission (api/v1/verification.py, api/v1/scraping.py)   *)
(* and cancellation (api/v1/jobs.py).                                      *)
(***************************************************************************)
\* POST /verify-batch: create, commit, then .delay()
verify_leads_batch_api(j, leads, webhook_url) ==
    /\ j \notin rows /\ j \notin uncommitted
    /\ store' = [store EXCEPT ![j] =
                    create("bulk_verify",
                           [NoConfig EXCEPT !.leads = leads, !.webhook_url = webhook_url],
                           Len(leads), webhook_url)]
    /\ rows' = rows \cup {j}
    /\ broker' = broker \cup {<<"verify_leads_batch", j>>}
    /\ response' = Queued("verify_leads_batch", j, Len(leads))
    /\ UNCHANGED <<uncommitted, pc, wk, webhooks, cancelledMidRun, settings>>

\* POST /verify-email-batch: create, commit, then .delay()
verify_emails_batch_api(j, emails, webhook_url) ==
    /\ j \notin rows /\ j \notin uncommitted
    /\ store' = [store EXCEPT ![j] =
                    create("bulk_verify",
                           [NoConfig EXCEPT !.emails = emails, !.webhook_url = webhook_url],
                           Len(emails), webhook_url)]
    /\ rows' = rows \cup {j}
    /\ broker' = broker \cup {<<"verify_emails_batch", j>>}
    /\ response' = Queued("verify_emails_batch", j, Len(emails))
    /\ UNCHANGED <<uncommitted, pc, wk, webhooks, cancelledMidRun, settings>>

\* POST /scraping/bulk answering queued without a dequeue signal sent
scrape_bulk_profiles_api_NoDispatch(j, urls, webhook_url) ==
    /\ j \notin rows /\ j \notin uncommitted
    /\ store' = [store EXCEPT ![j] =
                    create("scrape_profiles",
                           [NoConfig EXCEPT !.linkedin_urls = urls, !.webhook_url = webhook_url],
                           Len(urls), webhook_url)]
    /\ uncommitted' = uncommitted \cup {j}
    /\ response' = [Queued("scrape_bulk_profiles", j, Len(urls)) EXCEPT !.request = urls]
    /\ UNCHANGED <<rows, broker, pc, wk, webhooks, cancelledMidRun, settings>>

\* POST /scraping/bulk (and /group, /group/upload, /import): create (flush only),
\* then .delay(); the row is committed when the request's get_db dependency exits
scrape_bulk_profiles_api(j, urls, webhook_url) ==
    /\ j \notin rows /\ j \notin uncommitted
    /\ store' = [store EXCEPT ![j] =
                    create("scrape_profiles",
                           [NoConfig EXCEPT !.linkedin_urls = urls, !.webhook_url = webhook_url],
                           Len(urls), webhook_url)]
    /\ uncommitted' = uncommitted \cup {j}
    /\ broker' = broker \cup {<<"scrape_batch_profiles", j>>}
    /\ response' = [Queued("scrape_bulk_profiles", j, Len(urls)) EXCEPT !.request = urls]
    /\ UNCHANGED <<rows, pc, wk, webhooks, cancelledMidRun, settings>>

\* member_urls absent from the request body or null: the field is None
NullList == <<None>>

\* the member_urls check passing an empty list
MissingMemberUrls_OnlyNone(member_urls) == member_urls = NullList

\* "if not request.member_urls": None or an empty list
MissingMemberUrls(member_urls) == member_urls = NullList \/ member_urls = << >>

\* POST /scraping/group: 400 without member_urls; otherwise create (flush only),
\* then .delay(); the row is committed when the request's get_db dependency exits
scrape_linkedin_group_api(j, member_urls, webhook_url) ==
    /\ j \notin rows /\ j \notin uncommitted
    /\ IF MissingMemberUrls(member_urls)
       THEN /\ response' = [HttpError("scrape_linkedin_group", 400)
                               EXCEPT !.request = member_urls]
            /\ UNCHANGED <<store, uncommitted, broker>>
       ELSE /\ store' = [store EXCEPT ![j] =
                           create("scrape_profiles",
                                  [NoConfig EXCEPT !.member_urls = member_urls,
                                                   !.webhook_url = webhook_url],
                                  Len(member_urls), webhook_url)]
            /\ uncommitted' = uncommitted \cup {j}
            /\ broker' = broker \cup {<<"scrape_batch_profiles", j>>}
            /\ response' = [Queued("scrape_linkedin_group", j, Len(member_urls))
                               EXCEPT !.request = member_urls]
    /\ UNCHANGED <<rows, pc, wk, webhooks, cancelledMidRun, settings>>

\* result.get("profiles", []) of job.result or {}
Profiles(job) ==
    IF job.result # << >> /\ "profiles" \in DOMAIN job.result[1]
    THEN job.result[1].profiles ELSE << >>

\* GET /jobs/{id}/export?format=...: the rows of a csv export are the profiles
export_job_results(j, format) ==
    /\ response' =
          IF j \notin rows THEN HttpError("export_job_results", 404)
          ELSE IF store[j].status # "completed" THEN HttpError("export_job_results", 400)
          ELSE IF Profiles(store[j]) = << >> THEN HttpError("export_job_results", 404)
          ELSE [NoResponse EXCEPT !.endpoint = "export_job_results", !.code = 200,
                                  !.job_id = j, !.total = Len(Profiles(store[j])),
                                  !.format = format, !.profiles = Profiles(store[j])]
    /\ UNCHANGED <<rows, store, uncommitted, broker, pc, wk, webhooks, cancelledMidRun,
                   settings>>

\* get_db: session.commit() after the handler has returned
get_db_commit(j) ==
    /\ j \in uncommitted
    /\ uncommitted' = uncommitted \ {j}
    /\ rows' = rows \cup {j}
    /\ UNCHANGED <<store, broker, pc, wk, webhooks, cancelledMidRun, settings>>

MidRun == {"check", "loop", "probe"}

\* JobRepository.cancel, reached from POST /jobs/{id}/cancel, with the request's commit
cancel(j) ==
    /\ j \in rows
    /\ store[j].status \notin {"completed", "cancelled"}
    /\ store' = [store EXCEPT ![j].status = "cancelled", ![j].completed_at = TRUE]
    /\ cancelledMidRun' =
          (cancelledMidRun \/ \E w \in Workers : wk[w].job_id = j /\ pc[w] \in MidRun)
    /\ tasks' = CancelPending(tasks, j)
    /\ retried' = << >>
    /\ UNCHANGED <<rows, uncommitted, broker, pc, wk, webhooks, settings>>

(***************************************************************************)
(* The broker: a signal is delivered to a worker, which runs the task.  The *)
(* signal stays with the broker, which may deliver it again (at-least-once;*)
(* a task that raised is retried).  celery_app.py leaves task_acks_late at *)
(* its default, so a signal is acknowledged when its task starts and is    *)
(* delivered again only after the earlier execution has ended.             *)
(***************************************************************************)
Exited == {"returned", "raised"}

Domains == {"acme.com", "dead.test"}

IdleWorker ==
    [task |-> None, job_id |-> None, job |-> BlankJob, items |-> << >>, i |-> 0,
     permutations |-> << >>, processed |-> 0, failed |-> 0,
     domain_patterns |-> [d \in Domains |-> None],
     catch_all_domains |-> {}, dead_domains |-> {},
     verified_leads |-> << >>, results |-> << >>, calls |-> 0, exc |-> << >>,
     last_status |-> None, last_no_mx |-> FALSE, last_reason_no_mx |-> FALSE,
     webhook |-> None]

\* the locals of _process_job are gone once the task has returned or raised
Exit(loc, exc) == [IdleWorker EXCEPT !.task = loc.task, !.job_id = loc.job_id, !.exc = exc]

Deliver(w, msg) ==
    /\ pc[w] = "idle"
    /\ msg \in broker
    /\ \A v \in Workers : v < w => pc[v] \in Exited
    /\ pc' = [pc EXCEPT ![w] = "start"]
    \* the webhook outcome of an earlier execution is kept until the next one starts
    /\ wk' = [v \in Workers |->
                IF v = w THEN [IdleWorker EXCEPT !.task = msg[1], !.job_id = msg[2]]
                ELSE [wk[v] EXCEPT !.webhook = None]]
    /\ UNCHANGED <<rows, store, uncommitted, broker, webhooks, cancelledMidRun, settings>>

(***************************************************************************)
(* Worker tasks, workers/tasks/verification.py and workers/tasks/scraping.py*)
(***************************************************************************)
PROGRESS_EVERY == 10

\* the session's view of the row and the row after "repo call; session.commit()"
Running(job) == update_status(job, "running", None, << >>)

\* lines 47-54 (verify_leads_batch) and 253-260 (verify_emails_batch):
\* job_repo.get; "Job not found" return; update_status(RUNNING); commit
StartTask(w) ==
    LET j == wk[w].job_id IN
    IF j \notin rows
    THEN /\ pc' = [pc EXCEPT ![w] = "returned"]
         /\ UNCHANGED <<store, wk>>
    ELSE /\ store' = [store EXCEPT ![j] = Flush(store[j], store[j], Running(store[j]))]
         /\ wk' = [wk EXCEPT ![w].job = store'[j]]
         /\ pc' = [pc EXCEPT ![w] = "check"]

\* for lead in leads: lead["_domain"] = cleaned website; domain_groups[domain].append(lead)
WithDomain(leads) ==
    [k \in 1..Len(leads) |->
        [first_name |-> leads[k].first_name, last_name |-> leads[k].last_name,
         website |-> leads[k].website, _domain |-> CleanDomain(leads[k].website)]]

\* keys of domain_groups in insertion order
RECURSIVE GroupKeys(_, _)
GroupKeys(leads, keys) ==
    IF leads = << >> THEN keys
    ELSE GroupKeys(Tail(leads),
                   IF Contains(keys, Head(leads)._domain) THEN keys
                   ELSE Append(keys, Head(leads)._domain))

RECURSIVE ConcatGroups(_, _)
ConcatGroups(keys, leads) ==
    IF keys = << >> THEN << >>
    ELSE LET InGroup(l) == l._domain = Head(keys)
         IN SelectSeq(leads, InGroup) \o ConcatGroups(Tail(keys), leads)

\* a grouping that keeps only the leads of the first domain
GroupedLeads_FirstGroupOnly(leads) ==
    LET ls == WithDomain(leads) IN SelectSeq(ls, LAMBDA l : l._domain = ls[1]._domain)

\* the order in which "for domain, domain_leads in domain_groups.items():
\* for lead in domain_leads" visits the leads
GroupedLeads(leads) ==
    LET ls == WithDomain(leads) IN ConcatGroups(GroupKeys(ls, << >>), ls)

\* the row and the session's object after the failure path
\* "update_status(FAILED, error_message=...); commit"
FailJob(w, message) ==
    LET j == wk[w].job_id
        after == update_status(wk[w].job, "failed", message, << >>)
    IN /\ store' = [store EXCEPT ![j] = Flush(store[j], wk[w].job, after)]
       /\ wk' = [wk EXCEPT ![w] = Exit(wk[w], << >>)]

\* lines 56-94: config checks, then the set-up of the run
verify_leads_batch_Check(w) ==
    /\ pc[w] = "check" /\ wk[w].task = "verify_leads_batch"
    /\ LET leads == wk[w].job.config.leads IN
       IF leads = << >>
       THEN /\ FailJob(w, "No leads provided")
            /\ pc' = [pc EXCEPT ![w] = "returned"]
       ELSE IF ~settings.mailtester_ninja_api_key
       THEN /\ FailJob(w, "MailTester.ninja API key not configured")
            /\ pc' = [pc EXCEPT ![w] = "returned"]
       ELSE /\ wk' = [wk EXCEPT ![w].items = GroupedLeads(leads)]
            /\ pc' = [pc EXCEPT ![w] = "loop"]
            /\ UNCHANGED store
    /\ UNCHANGED <<rows, uncommitted, broker, webhooks, cancelledMidRun, settings>>

verify_leads_batch_Start(w) ==
    /\ pc[w] = "start" /\ wk[w].task = "verify_leads_batch"
    /\ StartTask(w)
    /\ UNCHANGED <<rows, uncommitted, broker, webhooks, cancelledMidRun, settings>>

\* lines 174-187: the end of one lead's iteration
EndLead(w, loc, found) ==
    LET j == wk[w].job_id
        failed == IF found THEN loc.failed ELSE loc.failed + 1
        processed == loc.processed + 1
        done == [loc EXCEPT !.failed = failed, !.processed = processed,
                            !.i = loc.i + 1, !.permutations = << >>]
    IN /\ pc' = [pc EXCEPT ![w] = "loop"]
       /\ IF processed % PROGRESS_EVERY = 0
          THEN LET after == update_progress(loc.job, processed, failed)
               IN /\ store' = [store EXCEPT ![j] = Flush(store[j], loc.job, after)]
                  /\ wk' = [wk EXCEPT ![w] = [done EXCEPT !.job = after]]
          ELSE /\ wk' = [wk EXCEPT ![w] = done]
               /\ UNCHANGED store

\* a catch-all answer counted as found
Found_AcceptsCatchAll(result) == result.status \in {"valid", "catch_all"}

\* line 146
Found(result) == result.status = "valid"

\* lines 143-172: one pass of "for email in permutations": the verify call for
\* the first remaining candidate and what its result does
ProbeCandidate(w, loc, permutations, probe) ==
    LET email == Head(permutations)
        result == probe.result
        lead == loc.items[loc.i + 1]
        domain == lead._domain
        called == [loc EXCEPT !.calls = loc.calls + 1, !.last_status = result.status,
                              !.last_no_mx = probe.no_mx,
                              !.last_reason_no_mx = (result.reason = R_NO_MX.reason)]
    IN IF Found(result)
       THEN LET pattern == detect_pattern(email, lead.first_name, lead.last_name)
                entry == [first_name |-> lead.first_name, last_name |-> lead.last_name,
                          website |-> lead.website, email |-> email]
                learned == IF pattern # None
                           THEN [loc.domain_patterns EXCEPT ![domain] = pattern]
                           ELSE loc.domain_patterns
            IN EndLead(w, [called EXCEPT !.verified_leads = Append(loc.verified_leads, entry),
                                         !.domain_patterns = learned], TRUE)
       ELSE IF result.status = "catch_all"
       THEN EndLead(w, [called EXCEPT !.catch_all_domains = loc.catch_all_domains \cup {domain}],
                    FALSE)
       ELSE IF result.status = "invalid" /\ result.reason # None /\ ReasonHasNoMX(result.reason)
       THEN EndLead(w, [called EXCEPT !.dead_domains = loc.dead_domains \cup {domain}], FALSE)
       ELSE IF Tail(permutations) = << >>
       THEN EndLead(w, called, FALSE)
       ELSE /\ wk' = [wk EXCEPT ![w] = [called EXCEPT !.permutations = Tail(permutations)]]
            /\ pc' = [pc EXCEPT ![w] = "probe"]
            /\ UNCHANGED store

\* the candidate list without the cut to one candidate on a catch-all domain
Candidates_NotTruncated(loc, lead) ==
    LET domain == lead._domain
        permutations == generate(lead.first_name, lead.last_name, domain,
                                 DEFAULT_MAX_PERMUTATIONS)
        known_email == _apply_pattern(loc.domain_patterns[domain],
                                      strip(lower(lead.first_name), " "),
                                      strip(lower(lead.last_name), " "), domain)
    IN IF loc.domain_patterns[domain] # None /\ Contains(permutations, known_email)
       THEN <<known_email>> \o RemoveFirst(permutations, known_email)
       ELSE permutations

\* lines 123-139: the candidate list of a lead, known pattern first, cut to one
\* candidate on a catch-all domain
Candidates(loc, lead) ==
    LET domain == lead._domain
        permutations == generate(lead.first_name, lead.last_name, domain,
                                 DEFAULT_MAX_PERMUTATIONS)
        known_email == _apply_pattern(loc.domain_patterns[domain],
                                      strip(lower(lead.first_name), " "),
                                      strip(lower(lead.last_name), " "), domain)
        reordered == IF loc.domain_patterns[domain] # None
                        /\ Contains(permutations, known_email)
                     THEN <<known_email>> \o RemoveFirst(permutations, known_email)
                     ELSE permutations
    IN IF domain \in loc.catch_all_domains /\ reordered # << >>
       THEN SubSeq(reordered, 1, 1) ELSE reordered

\* a lead is skipped only when it has no permutations
SkipsLead_OnlyWithoutPermutations(loc, lead, permutations) == permutations = << >>

\* lines 105 and 118: the lead is counted failed without a verify call
SkipsLead(loc, lead, permutations) ==
    lead._domain \in loc.dead_domains \/ permutations = << >>

\* lines 101-145: the next lead is taken; a lead on a dead domain or without
\* permutations is counted failed, otherwise its first candidate is verified
verify_leads_batch_Lead(w) ==
    /\ pc[w] = "loop" /\ wk[w].task = "verify_leads_batch"
    /\ wk[w].i < Len(wk[w].items)
    /\ LET loc == wk[w]
           lead == loc.items[loc.i + 1]
           permutations == Candidates(loc, lead)
       IN IF SkipsLead(loc, lead, permutations)
          THEN /\ wk' = [wk EXCEPT ![w].failed = loc.failed + 1,
                                   ![w].processed = loc.processed + 1,
                                   ![w].i = loc.i + 1]
               /\ UNCHANGED <<pc, store>>
          ELSE \E probe \in VerifyProbes(Head(permutations)) :
                  ProbeCandidate(w, loc, permutations, probe)
    /\ UNCHANGED <<rows, uncommitted, broker, webhooks, cancelledMidRun, settings>>

\* lines 143-172: the verify call for a further candidate of the same lead
verify_leads_batch_Probe(w) ==
    /\ pc[w] = "probe" /\ wk[w].task = "verify_leads_batch"
    /\ \E probe \in VerifyProbes(Head(wk[w].permutations)) :
          ProbeCandidate(w, wk[w], wk[w].permutations, probe)
    /\ UNCHANGED <<rows, uncommitted, broker, webhooks, cancelledMidRun, settings>>

\* "Final update": update_status(COMPLETED, result=...), update_progress(...), commit;
\* then the webhook is due when config.get("webhook_url") or job.webhook_url
FinalUpdate(w, result, processed_items, failed_items) ==
    LET j == wk[w].job_id
        completed == update_status(wk[w].job, "completed", None, <<result>>)
        row1 == Flush(store[j], wk[w].job, completed)
        \* db.refresh(job) in update_status: the session's object is the row
        after == update_progress(row1, processed_items, failed_items)
        webhook_url == IF wk[w].job.config.webhook_url # None
                       THEN wk[w].job.config.webhook_url ELSE wk[w].job.webhook_url
    IN /\ store' = [store EXCEPT ![j] = Flush(row1, row1, after)]
       /\ wk' = [wk EXCEPT ![w] = IF webhook_url # None THEN [wk[w] EXCEPT !.job = after]
                                  ELSE Exit(wk[w], << >>)]
       /\ pc' = [pc EXCEPT ![w] = IF webhook_url # None THEN "webhook" ELSE "returned"]

\* lines 189-200
verify_leads_batch_Final(w) ==
    /\ pc[w] = "loop" /\ wk[w].task = "verify_leads_batch"
    /\ wk[w].i = Len(wk[w].items)
    /\ FinalUpdate(w, [verified_leads |-> wk[w].verified_leads],
                   wk[w].processed, wk[w].failed)
    /\ UNCHANGED <<rows, uncommitted, broker, webhooks, cancelledMidRun, settings>>

\* _send_webhook letting the exception of a failed POST out into the task
_send_webhook_Raises(w, delivered) ==
    /\ pc[w] = "webhook"
    /\ webhooks' = webhooks + 1
    /\ IF delivered
       THEN /\ pc' = [pc EXCEPT ![w] = "returned"]
            /\ wk' = [wk EXCEPT ![w] = [Exit(wk[w], << >>) EXCEPT !.webhook = "sent"]]
            /\ UNCHANGED store
       ELSE /\ pc' = [pc EXCEPT ![w] = "raised"]
            /\ wk' = [wk EXCEPT ![w] = [Exit(wk[w], <<"boom">>) EXCEPT !.webhook = "failed"]]
            /\ store' = [store EXCEPT ![wk[w].job_id].status = "failed",
                                      ![wk[w].job_id].error_message = "boom"]
    /\ UNCHANGED <<rows, uncommitted, broker, cancelledMidRun, settings>>

\* _send_webhook: one POST, which is delivered or fails (connection error,
\* timeout, error status); a failed POST is logged and swallowed
_send_webhook(w, delivered) ==
    /\ pc[w] = "webhook"
    /\ webhooks' = webhooks + 1
    /\ pc' = [pc EXCEPT ![w] = "returned"]
    /\ wk' = [wk EXCEPT ![w] = [Exit(wk[w], << >>)
                                  EXCEPT !.webhook = IF delivered THEN "sent" ELSE "failed"]]
    /\ UNCHANGED <<rows, store, uncommitted, broker, cancelledMidRun, settings>>

\* "except Exception as e": update_status(FAILED, error_message=str(e)); commit; raise
ExceptHandler(w, e) ==
    /\ pc[w] \in {"loop", "probe"}
    /\ LET j == wk[w].job_id
           after == update_status(wk[w].job, "failed", e, << >>)
       IN /\ store' = [store EXCEPT ![j] = Flush(store[j], wk[w].job, after)]
          /\ wk' = [wk EXCEPT ![w] = Exit(wk[w], <<e>>)]
    /\ pc' = [pc EXCEPT ![w] = "raised"]

\* lines 224-228: an exception e raised in the try block of verify_leads_batch
verify_leads_batch_Except(w, e) ==
    /\ wk[w].task = "verify_leads_batch"
    /\ ExceptHandler(w, e)
    /\ UNCHANGED <<rows, uncommitted, broker, webhooks, cancelledMidRun, settings>>

(***************************************************************************)
(* verify_emails_batch                                                     *)
(***************************************************************************)
verify_emails_batch_Start(w) ==
    /\ pc[w] = "start" /\ wk[w].task = "verify_emails_batch"
    /\ StartTask(w)
    /\ UNCHANGED <<rows, uncommitted, broker, webhooks, cancelledMidRun, settings>>

\* lines 262-278
verify_emails_batch_Check(w) ==
    /\ pc[w] = "check" /\ wk[w].task = "verify_emails_batch"
    /\ LET emails == wk[w].job.config.emails IN
       IF emails = << >>
       THEN /\ FailJob(w, "No emails provided")
            /\ pc' = [pc EXCEPT ![w] = "returned"]
       ELSE IF ~settings.mailtester_ninja_api_key
       THEN /\ FailJob(w, "MailTester.ninja API key not configured")
            /\ pc' = [pc EXCEPT ![w] = "returned"]
       ELSE /\ wk' = [wk EXCEPT ![w].items = emails]
            /\ pc' = [pc EXCEPT ![w] = "loop"]
            /\ UNCHANGED store
    /\ UNCHANGED <<rows, uncommitted, broker, webhooks, cancelledMidRun, settings>>

\* lines 287-313: one email: verify, record, tally, flush every 10
verify_emails_batch_Email(w) ==
    /\ pc[w] = "loop" /\ wk[w].task = "verify_emails_batch"
    /\ wk[w].i < Len(wk[w].items)
    /\ \E result \in VerifyOutcomes(wk[w].items[wk[w].i + 1]) :
        LET loc == wk[w]
            j == loc.job_id
            email == loc.items[loc.i + 1]
            record == [email |-> email, status |-> result.status,
                       is_deliverable |-> result.is_deliverable,
                       is_catch_all |-> result.is_catch_all,
                       mx_found |-> result.mx_found, reason |-> result.reason]
            processed == IF result.status = "valid" THEN loc.processed + 1 ELSE loc.processed
            failed == IF result.status = "valid" THEN loc.failed ELSE loc.failed + 1
            total_done == processed + failed
            done == [loc EXCEPT !.results = Append(loc.results, record), !.calls = loc.calls + 1,
                                !.processed = processed, !.failed = failed, !.i = loc.i + 1]
        IN IF total_done % PROGRESS_EVERY = 0
           THEN LET after == update_progress(loc.job, total_done, failed)
                IN /\ store' = [store EXCEPT ![j] = Flush(store[j], loc.job, after)]
                   /\ wk' = [wk EXCEPT ![w] = [done EXCEPT !.job = after]]
           ELSE /\ wk' = [wk EXCEPT ![w] = done]
                /\ UNCHANGED store
    /\ UNCHANGED <<rows, uncommitted, broker, pc, webhooks, cancelledMidRun, settings>>

\* a final update that stores the number of valid emails as processed_items
verify_emails_batch_Final_CountsValidOnly(w) ==
    /\ pc[w] = "loop" /\ wk[w].task = "verify_emails_batch"
    /\ wk[w].i = Len(wk[w].items)
    /\ FinalUpdate(w, [results |-> wk[w].results], wk[w].processed, wk[w].failed)
    /\ UNCHANGED <<rows, uncommitted, broker, webhooks, cancelledMidRun, settings>>

\* lines 315-326
verify_emails_batch_Final(w) ==
    /\ pc[w] = "loop" /\ wk[w].task = "verify_emails_batch"
    /\ wk[w].i = Len(wk[w].items)
    /\ FinalUpdate(w, [results |-> wk[w].results],
                   wk[w].processed + wk[w].failed, wk[w].failed)
    /\ UNCHANGED <<rows, uncommitted, broker, webhooks, cancelledMidRun, settings>>

\* lines 348-352
verify_emails_batch_Except(w, e) ==
    /\ wk[w].task = "verify_emails_batch"
    /\ ExceptHandler(w, e)
    /\ UNCHANGED <<rows, uncommitted, broker, webhooks, cancelledMidRun, settings>>

(***************************************************************************)
(* scrape_batch_profiles: after the "Job not found" return, line 112       *)
(* evaluates JobStatus.PROCESSING, which the enum does not define; the     *)
(* AttributeError leaves _process_job before update_status is called and   *)
(* before the try block, so nothing below line 112 ever runs.              *)
(***************************************************************************)
scrape_batch_profiles_Start(w) ==
    /\ pc[w] = "start" /\ wk[w].task = "scrape_batch_profiles"
    /\ IF wk[w].job_id \notin rows
       THEN /\ pc' = [pc EXCEPT ![w] = "returned"]
            /\ UNCHANGED wk
       ELSE /\ pc' = [pc EXCEPT ![w] = "raised"]
            /\ wk' = [wk EXCEPT ![w] = Exit(wk[w], <<"AttributeError: PROCESSING">>)]
    /\ UNCHANGED <<rows, store, uncommitted, broker, webhooks, cancelledMidRun, settings>>

(***************************************************************************)
(* The job engine.                                                         *)
(***************************************************************************)
Coroutines == {"c1", "c2"}

\* requests: HTTP requests of the call in progress that were sent and answered;
\* recorded: timestamps the call in progress appended to _request_timestamps;
\* outcome: the answer to the last request; result: << >> or <<the returned value>>
IdleCoroutine ==
    [pc |-> "idle", wake |-> 0, retry_count |-> 0, requests |-> 0, recorded |-> 0,
     outcome |-> None, result |-> << >>]

LimiterIdle ==
    /\ now = 0 /\ timestamps = << >> /\ issued = << >>
    /\ co = [c \in Coroutines |-> IdleCoroutine]

Init ==
    /\ rows = {} /\ uncommitted = {} /\ broker = {}
    /\ store = [j \in JobIds |-> BlankJob]
    /\ pc = [w \in Workers |-> "idle"]
    /\ wk = [w \in Workers |-> IdleWorker]
    /\ webhooks = 0
    /\ cancelledMidRun = FALSE
    /\ settings \in [mailtester_ninja_api_key : BOOLEAN]
    /\ LimiterIdle
    /\ DecoderIdle
    /\ PermutatorIdle
    /\ TasksIdle
    /\ FinderIdle /\ ApiIdle /\ ScraperIdle

Submit ==
    \E j \in JobIds, webhook_url \in WebhookUrls :
        \/ \E leads \in LeadLists : verify_leads_batch_api(j, leads, webhook_url)
        \/ \E emails \in EmailLists : verify_emails_batch_api(j, emails, webhook_url)
        \/ \E urls \in UrlLists : scrape_bulk_profiles_api(j, urls, webhook_url)
        \/ \E member_urls \in UrlLists \cup {NullList, << >>} :
              scrape_linkedin_group_api(j, member_urls, webhook_url)

Next ==
    \/ Submit /\ UNCHANGED <<limVars, decVars, permVars, taskVars, serviceVars, scraperVars>>
    \/ \E j \in JobIds, format \in {"csv", "json"} :
          export_job_results(j, format)
          /\ UNCHANGED <<limVars, decVars, permVars, taskVars, serviceVars, scraperVars>>
    \/ \E j \in JobIds : get_db_commit(j) /\ Cleared
          /\ UNCHANGED <<limVars, decVars, permVars, taskVars, serviceVars, scraperVars>>
    \/ \E j \in JobIds : cancel(j) /\ Cleared
          /\ UNCHANGED <<limVars, decVars, permVars, serviceVars, scraperVars>>
    \/ \E w \in Workers, msg \in broker : Deliver(w, msg) /\ Cleared
          /\ UNCHANGED <<limVars, decVars, permVars, taskVars, serviceVars, scraperVars>>
    \/ \E w \in Workers : verify_leads_batch_Start(w) /\ Cleared
          /\ UNCHANGED <<limVars, decVars, permVars, taskVars, serviceVars, scraperVars>>
    \/ \E w \in Workers : verify_leads_batch_Check(w) /\ Cleared
          /\ UNCHANGED <<limVars, decVars, permVars, taskVars, serviceVars, scraperVars>>
    \/ \E w \in Workers : verify_leads_batch_Lead(w) /\ Cleared
          /\ UNCHANGED <<limVars, decVars, permVars, taskVars, serviceVars, scraperVars>>
    \/ \E w \in Workers : verify_leads_batch_Probe(w) /\ Cleared
          /\ UNCHANGED <<limVars, decVars, permVars, taskVars, serviceVars, scraperVars>>
    \/ \E w \in Workers : verify_leads_batch_Final(w) /\ Cleared
          /\ UNCHANGED <<limVars, decVars, permVars, taskVars, serviceVars, scraperVars>>
    \/ \E w \in Workers, e \in ErrorStrings : verify_leads_batch_Except(w, e) /\ Cleared
          /\ UNCHANGED <<limVars, decVars, permVars, taskVars, serviceVars, scraperVars>>
    \/ \E w \in Workers : verify_emails_batch_Start(w) /\ Cleared
          /\ UNCHANGED <<limVars, decVars, permVars, taskVars, serviceVars, scraperVars>>
    \/ \E w \in Workers : verify_emails_batch_Check(w) /\ Cleared
          /\ UNCHANGED <<limVars, decVars, permVars, taskVars, serviceVars, scraperVars>>
    \/ \E w \in Workers : verify_emails_batch_Email(w) /\ Cleared
          /\ UNCHANGED <<limVars, decVars, permVars, taskVars, serviceVars, scraperVars>>
    \/ \E w \in Workers : verify_emails_batch_Final(w) /\ Cleared
          /\ UNCHANGED <<limVars, decVars, permVars, taskVars, serviceVars, scraperVars>>
    \/ \E w \in Workers, e \in ErrorStrings : verify_emails_batch_Except(w, e) /\ Cleared
          /\ UNCHANGED <<limVars, decVars, permVars, taskVars, serviceVars, scraperVars>>
    \/ \E w \in Workers : scrape_batch_profiles_Start(w) /\ Cleared
          /\ UNCHANGED <<limVars, decVars, permVars, taskVars, serviceVars, scraperVars>>
    \/ \E w \in Workers, delivered \in BOOLEAN : _send_webhook(w, delivered) /\ Cleared
          /\ UNCHANGED <<limVars, decVars, permVars, taskVars, serviceVars, scraperVars>>

Spec == Init /\ [][Next]_vars

(***************************************************************************)
(* MailTesterNinjaVerifier: the sliding window limiter and the retry loop  *)
(* of verify, services/enrichment/email_verifier.py.  Times are in ms.     *)
(***************************************************************************)
RATE_LIMIT_MAX_REQUESTS == 35
RATE_LIMIT_WINDOW_MS == 30000
MAX_RETRIES == 2
BASE_RETRY_DELAY_MS == 31000

\* the clock of the model runs to MaxTime (to GatherMaxTime when coroutines run
\* concurrently), in steps of TickMs or to a wake-up time
MaxTime == 94000
GatherMaxTime == 32000
TickMs == 20000

\* [ts for ts in self._request_timestamps if now - ts < RATE_LIMIT_WINDOW_MS]
Purge(ts, t) ==
    LET Young(x) == t - x < RATE_LIMIT_WINDOW_MS IN SelectSeq(ts, Young)

\* wait_time_ms with the 100 ms buffer subtracted instead of added
WaitTimeMs_BufferSubtracted(t, oldest_timestamp) ==
    RATE_LIMIT_WINDOW_MS - (t - oldest_timestamp) - 100

\* wait_time_ms, line 107
WaitTimeMs(t, oldest_timestamp) == RATE_LIMIT_WINDOW_MS - (t - oldest_timestamp) + 100

\* a delay that does not double
RetryDelayMs_Constant(retry_count) == BASE_RETRY_DELAY_MS

\* delay_ms, line 147
RetryDelayMs(retry_count) == BASE_RETRY_DELAY_MS * (2 ^ (retry_count - 1))

\* verify is entered (retry_count = 0); the loop's first pass is about to
\* call _wait_for_rate_limit
BeginVerify(c) ==
    /\ co[c].pc = "idle"
    /\ co' = [co EXCEPT ![c] = [IdleCoroutine EXCEPT !.pc = "limit"]]
    /\ UNCHANGED <<now, timestamps, issued>>

\* _wait_for_rate_limit up to its await: purge; when the window is full the
\* coroutine goes to sleep, otherwise the request is recorded (line 127) and sent
WaitForRateLimit(c) ==
    /\ co[c].pc = "limit"
    /\ LET kept == Purge(timestamps, now) IN
       IF Len(kept) >= RATE_LIMIT_MAX_REQUESTS /\ WaitTimeMs(now, kept[1]) > 0
       THEN /\ timestamps' = kept
            /\ co' = [co EXCEPT ![c].pc = "sleeping",
                                ![c].wake = now + WaitTimeMs(now, kept[1])]
            /\ UNCHANGED issued
       ELSE /\ timestamps' = Append(kept, now)
            /\ issued' = Append(issued, now)
            /\ co' = [co EXCEPT ![c].pc = "request", ![c].recorded = co[c].recorded + 1]
    /\ UNCHANGED now

\* asyncio.sleep(wait_time_s) has returned: purge again, record the request, send it
WakeUp(c) ==
    /\ co[c].pc = "sleeping"
    /\ now >= co[c].wake
    /\ timestamps' = Append(Purge(timestamps, now), now)
    /\ issued' = Append(issued, now)
    /\ co' = [co EXCEPT ![c].pc = "request", ![c].recorded = co[c].recorded + 1]
    /\ UNCHANGED now

\* what client.get and raise_for_status may do: a status code, a timeout, or
\* another exception ("error")
HttpOutcomes == {"200", "429", "401", "403", "500", "timeout", "error"}

\* the answers a 200 carries in the limiter specifications
SampleAnswers ==
    { [code |-> "ok", message |-> "Accepted", mx |-> "mx.acme.com"],
      [code |-> "ko", message |-> "No Mx", mx |-> None] }

\* client.get has sent the request and its answer is handled: a 429 is retried
\* after a sleep while retry_count <= MAX_RETRIES and returns the rate-limited
\* result after that; a 200 is decoded; every other outcome returns from verify
Response(c, outcome, answer) ==
    /\ co[c].pc = "request"
    /\ LET sent == [co[c] EXCEPT !.requests = co[c].requests + 1, !.outcome = outcome]
           Return(result) == [sent EXCEPT !.pc = "returned", !.result = <<result>>]
       IN IF outcome = "429"
          THEN IF co[c].retry_count + 1 <= MAX_RETRIES
               THEN co' = [co EXCEPT ![c] =
                              [sent EXCEPT !.pc = "backoff",
                                           !.retry_count = co[c].retry_count + 1,
                                           !.wake = now + RetryDelayMs(co[c].retry_count + 1)]]
               ELSE co' = [co EXCEPT ![c] =
                              [Return(RateLimitedResult)
                                  EXCEPT !.retry_count = co[c].retry_count + 1]]
          ELSE IF outcome = "200"
          THEN co' = [co EXCEPT ![c] = Return(_parse_response(answer))]
          ELSE co' = [co EXCEPT ![c] = Return(ErrorResult(outcome))]
    /\ UNCHANGED <<now, timestamps, issued>>

\* the caller of verify has taken the returned result
Returned(c) ==
    /\ co[c].pc = "returned"
    /\ co' = [co EXCEPT ![c] = IdleCoroutine]
    /\ UNCHANGED <<now, timestamps, issued>>

\* a retry that is sent without passing the limiter again
RetryAfterBackoff_SkipsLimiter(c) ==
    /\ co[c].pc = "backoff"
    /\ now >= co[c].wake
    /\ co' = [co EXCEPT ![c].pc = "request"]
    /\ UNCHANGED <<now, timestamps, issued>>

\* asyncio.sleep(delay_ms / 1000) has returned: "continue" re-enters the limiter
RetryAfterBackoff(c) ==
    /\ co[c].pc = "backoff"
    /\ now >= co[c].wake
    /\ co' = [co EXCEPT ![c].pc = "limit"]
    /\ UNCHANGED <<now, timestamps, issued>>

\* time passes; the history forgets the requests that have left the window
TickWithin(horizon) ==
    /\ \E t \in {now + TickMs} \cup {co[c].wake : c \in Coroutines} :
          /\ t > now /\ t <= horizon
          /\ now' = t
    /\ issued' = Purge(issued, now')
    /\ UNCHANGED <<timestamps, co>>

Tick == TickWithin(MaxTime)

JobsIdle ==
    /\ rows = {} /\ uncommitted = {} /\ broker = {}
    /\ store = [j \in JobIds |-> BlankJob]
    /\ pc = [w \in Workers |-> "idle"]
    /\ wk = [w \in Workers |-> IdleWorker]
    /\ webhooks = 0
    /\ cancelledMidRun = FALSE
    /\ settings = [mailtester_ninja_api_key |-> TRUE]

LimiterInit ==
    JobsIdle /\ LimiterIdle /\ DecoderIdle /\ PermutatorIdle /\ TasksIdle /\ FinderIdle /\ ApiIdle /\ ScraperIdle

\* one caller at a time: verify is entered only when no other call is in progress
SequentialNext ==
    \/ \E c \in Coroutines :
          /\ \A d \in Coroutines : co[d].pc = "idle"
          /\ BeginVerify(c) /\ UNCHANGED <<jobVars, decVars, permVars, taskVars, serviceVars, apiVars, scraperVars>>
    \/ \E c \in Coroutines : WaitForRateLimit(c) /\ UNCHANGED <<jobVars, decVars, permVars, taskVars, serviceVars, apiVars, scraperVars>>
    \/ \E c \in Coroutines : WakeUp(c) /\ UNCHANGED <<jobVars, decVars, permVars, taskVars, serviceVars, apiVars, scraperVars>>
    \/ \E c \in Coroutines, outcome \in HttpOutcomes, answer \in SampleAnswers :
          Response(c, outcome, answer) /\ UNCHANGED <<jobVars, decVars, permVars, taskVars, serviceVars, apiVars, scraperVars>>
    \/ \E c \in Coroutines : Returned(c) /\ UNCHANGED <<jobVars, decVars, permVars, taskVars, serviceVars, apiVars, scraperVars>>
    \/ \E c \in Coroutines : RetryAfterBackoff(c) /\ UNCHANGED <<jobVars, decVars, permVars, taskVars, serviceVars, apiVars, scraperVars>>
    \/ Tick /\ UNCHANGED <<jobVars, decVars, permVars, taskVars, serviceVars, apiVars, scraperVars>>

LimiterSpec == LimiterInit /\ [][SequentialNext]_vars

\* the answers the vendor gives while coroutines run concurrently
GatherOutcomes == {"200", "429"}
GatherAnswers == { [code |-> "ok", message |-> "Accepted", mx |-> "mx.acme.com"] }

\* asyncio.gather in EnrichmentPipeline.enrich_leads: the coroutines share the
\* verifier and interleave at every await
GatherNext ==
    \/ \E c \in Coroutines : BeginVerify(c) /\ UNCHANGED <<jobVars, decVars, permVars, taskVars, serviceVars, apiVars, scraperVars>>
    \/ \E c \in Coroutines : WaitForRateLimit(c) /\ UNCHANGED <<jobVars, decVars, permVars, taskVars, serviceVars, apiVars, scraperVars>>
    \/ \E c \in Coroutines : WakeUp(c) /\ UNCHANGED <<jobVars, decVars, permVars, taskVars, serviceVars, apiVars, scraperVars>>
    \/ \E c \in Coroutines, outcome \in GatherOutcomes, answer \in GatherAnswers :
          Response(c, outcome, answer) /\ UNCHANGED <<jobVars, decVars, permVars, taskVars, serviceVars, apiVars, scraperVars>>
    \/ \E c \in Coroutines : Returned(c) /\ UNCHANGED <<jobVars, decVars, permVars, taskVars, serviceVars, apiVars, scraperVars>>
    \/ \E c \in Coroutines : RetryAfterBackoff(c) /\ UNCHANGED <<jobVars, decVars, permVars, taskVars, serviceVars, apiVars, scraperVars>>
    \/ TickWithin(GatherMaxTime) /\ UNCHANGED <<jobVars, decVars, permVars, taskVars, serviceVars, apiVars, scraperVars>>

GatherSpec == LimiterInit /\ [][GatherNext]_vars

(***************************************************************************)
(* The decoder applied to each vendor answer.                              *)
(***************************************************************************)
DecoderInit ==
    /\ JobsIdle /\ LimiterIdle /\ PermutatorIdle /\ TasksIdle /\ FinderIdle /\ ApiIdle /\ ScraperIdle
    /\ data \in VendorAnswers
    /\ decoded = << >>

\* data = response.json(); return self._parse_response(email, data)
Decode ==
    /\ decoded = << >>
    /\ decoded' = <<_parse_response(data)>>
    /\ UNCHANGED <<data, jobVars, limVars, permVars, taskVars, serviceVars, apiVars, scraperVars>>

DecoderNext == Decode

DecoderSpec == DecoderInit /\ [][DecoderNext]_vars

(***************************************************************************)
(* PermutatorSpec: generate is called once on arguments drawn from bounded *)
(* sets, then detect_pattern is applied to entries of the list it returned.*)
(***************************************************************************)
NameInputs ==
    { ada, bo, <<"b">>, <<"o">>, digit, <<"b", "o", " ", "j", "r">>,
      <<" ", "A", " ", "d", " ">>, <<"-", "a", "1">> }

KnownPatternInputs == {None, "{first}", "{first}{l}", "{last}.{first}"}

MaxPermutationInputs == {1, 3, DEFAULT_MAX_PERMUTATIONS}

PermutatorInit ==
    /\ JobsIdle /\ LimiterIdle /\ DecoderIdle /\ TasksIdle /\ FinderIdle /\ ApiIdle /\ ScraperIdle
    /\ call \in [known_pattern : KnownPatternInputs, first_name : NameInputs,
                  last_name : NameInputs, domain : {"acme.com", ""},
                  max_permutations : MaxPermutationInputs]
    /\ generated = << >> /\ detected = << >>

Generate ==
    /\ generated = << >>
    /\ generated' = <<generate_known(call.known_pattern, call.first_name, call.last_name,
                                     call.domain, call.max_permutations)>>
    /\ UNCHANGED <<call, detected, jobVars, limVars, decVars, taskVars, serviceVars, apiVars, scraperVars>>

Detect(k) ==
    /\ generated # << >> /\ k \in 1..Len(generated[1])
    /\ detected' = <<[k |-> k,
                      pattern |-> detect_pattern(generated[1][k], call.first_name,
                                                 call.last_name)]>>
    /\ UNCHANGED <<call, generated, jobVars, limVars, decVars, taskVars, serviceVars, apiVars, scraperVars>>

PermutatorNext ==
    \/ Generate
    \/ \E k \in 1..Len(COMMON_PATTERNS) + 1 : Detect(k)

PermutatorSpec == PermutatorInit /\ [][PermutatorNext]_vars

(***************************************************************************)
(* TaskSpec: the task methods of JobRepository and cancel, called in any   *)
(* order on the tasks of a committed pending job j1 and of another job.    *)
(***************************************************************************)
TaskInit ==
    /\ rows = {"j1"} /\ uncommitted = {} /\ broker = {}
    /\ store = [j \in JobIds |-> create("bulk_verify", NoConfig, 0, None)]
    /\ pc = [w \in Workers |-> "idle"]
    /\ wk = [w \in Workers |-> IdleWorker]
    /\ webhooks = 0
    /\ cancelledMidRun = FALSE
    /\ settings = [mailtester_ninja_api_key |-> TRUE]
    /\ LimiterIdle /\ DecoderIdle /\ PermutatorIdle /\ TasksIdle /\ FinderIdle /\ ApiIdle /\ ScraperIdle

TaskNext ==
    \/ \E t \in TaskIds, j \in TaskJobIds :
          create_task(t, j) /\ UNCHANGED <<jobVars, limVars, decVars, permVars, serviceVars, apiVars, scraperVars>>
    \/ \E t \in TaskIds, status \in JobStatus :
          update_task_status(t, status) /\ UNCHANGED <<jobVars, limVars, decVars, permVars, serviceVars, apiVars, scraperVars>>
    \/ \E j \in TaskJobIds :
          retry_failed_tasks(j) /\ UNCHANGED <<jobVars, limVars, decVars, permVars, serviceVars, apiVars, scraperVars>>
    \/ \E j \in JobIds : cancel(j) /\ UNCHANGED <<limVars, decVars, permVars, serviceVars, apiVars, scraperVars>>

TaskSpec == TaskInit /\ [][TaskNext]_vars

(***************************************************************************)
(* FinderSpec: find_domain calls on one CompanyDomainFinder, made by the   *)
(* coroutines that asyncio.gather runs in process_member_urls              *)
(* (_enrich_single_profile), with every answer _has_valid_mx can give.     *)
(***************************************************************************)
FinderInit ==
    JobsIdle /\ LimiterIdle /\ DecoderIdle /\ PermutatorIdle /\ TasksIdle /\ FinderIdle /\ ApiIdle /\ ScraperIdle

FinderNext ==
    \/ \E c \in Coroutines, name \in CompanyNames :
          find_domain_Call(c, name)
          /\ UNCHANGED <<jobVars, limVars, decVars, permVars, taskVars, apiVars, scraperVars>>
    \/ \E c \in Coroutines, has_mx \in BOOLEAN :
          find_domain_Probe(c, has_mx)
          /\ UNCHANGED <<jobVars, limVars, decVars, permVars, taskVars, apiVars, scraperVars>>
    \/ \E c \in Coroutines :
          find_domain_Returned(c)
          /\ UNCHANGED <<jobVars, limVars, decVars, permVars, taskVars, apiVars, scraperVars>>

FinderSpec == FinderInit /\ [][FinderNext]_vars

(***************************************************************************)
(* ScraperSpec: one process_member_urls call consumed by the loop of       *)
(* scrape_batch_profiles, for every outcome of the enrichment of each URL. *)
(***************************************************************************)
ScraperInit ==
    JobsIdle /\ LimiterIdle /\ DecoderIdle /\ PermutatorIdle /\ TasksIdle /\ FinderIdle /\ ApiIdle /\ ScraperIdle

GatherResults ==
    UNION { [1..n -> UNION {EnrichOutcomes(ScraperUrls[k]) : k \in 1..3}
                       \cup {EnrichedMember(ScraperUrls[k], FALSE, FALSE) : k \in 1..3}]
            : n \in 1..2 }

ScraperNext ==
    \/ \E urls \in ScraperUrlLists, enrich_profiles \in BOOLEAN, find_emails \in BOOLEAN,
          batch_size \in BatchSizes :
          process_member_urls_Call(urls, enrich_profiles, find_emails, batch_size)
          /\ UNCHANGED <<jobVars, limVars, decVars, permVars, taskVars, serviceVars, apiVars>>
    \/ \E outcomes \in GatherResults :
          process_member_urls_Gather(outcomes)
          /\ UNCHANGED <<jobVars, limVars, decVars, permVars, taskVars, serviceVars, apiVars>>
    \/ \E email \in BOOLEAN :
          process_member_urls_Profile(email)
          /\ UNCHANGED <<jobVars, limVars, decVars, permVars, taskVars, serviceVars, apiVars>>
    \/ process_member_urls_EndBatch
          /\ UNCHANGED <<jobVars, limVars, decVars, permVars, taskVars, serviceVars, apiVars>>
    \/ process_member_urls_Return
          /\ UNCHANGED <<jobVars, limVars, decVars, permVars, taskVars, serviceVars, apiVars>>

ScraperSpec == ScraperInit /\ [][ScraperNext]_vars

(***************************************************************************)
(* Properties.                                                             *)
(***************************************************************************)
\* C1: once a job's stored status is completed, failed or cancelled, no later
\* operation (update_status, cancel, a worker task run) changes its status.
C1_TerminalSticky ==
    [][\A j \in JobIds :
          (j \in rows /\ store[j].status \in TerminalStatus)
              => store'[j].status = store[j].status]_vars

\* C2: in every committed state the job's counters satisfy
\* processed_items + failed_items <= total_items.
C2_CountersWithinTotal ==
    \A j \in rows : store[j].processed_items + store[j].failed_items <= store[j].total_items

\* a step in which worker w dispatches a vendor call (verifier.verify)
DispatchesCall(w) == wk'[w].calls > wk[w].calls

\* C3: once cancel has committed status cancelled, a worker of the job that
\* stands at an item boundary dispatches no vendor call for a later item.
C3_StopsAtItemBoundary ==
    [][\A w \in Workers :
          (/\ pc[w] = "loop"
           /\ wk[w].job_id \in rows
           /\ store[wk[w].job_id].status = "cancelled")
              => ~DispatchesCall(w)]_vars

\* C4: a job cancelled while its worker was mid-run has stored status cancelled
\* once the worker task has exited, and no webhook has been POSTed for it.
C4_CancelledStaysCancelled ==
    (cancelledMidRun /\ \A w \in Workers : pc[w] \in Exited \cup {"idle"})
        => (\A j \in rows : store[j].status = "cancelled") /\ webhooks = 0

\* C5: with one caller at a time, at every instant at most 35 recorded requests
\* are younger than 30 s.
C5_WindowRespected ==
    /\ Len(issued) <= RATE_LIMIT_MAX_REQUESTS
    /\ \A k \in 1..Len(issued) : now - issued[k] < RATE_LIMIT_WINDOW_MS

\* C5 witness: the caller found the window full, slept, and its request is the
\* 35th of the window
C5_Witness ==
    /\ Len(issued) = RATE_LIMIT_MAX_REQUESTS
    /\ \E c \in Coroutines :
          /\ co[c].pc = "request" /\ co[c].retry_count = 0
          /\ co[c].wake = now /\ issued[Len(issued)] = now
          /\ issued[1] < now

\* C6: with coroutines calling verify concurrently on one verifier, request
\* k+35 is never recorded less than 30 s after request k.
C6_WindowRespectedConcurrently ==
    \A k \in 1..Len(issued) :
        k + RATE_LIMIT_MAX_REQUESTS <= Len(issued)
            => issued[k + RATE_LIMIT_MAX_REQUESTS] - issued[k] >= RATE_LIMIT_WINDOW_MS

\* the edges of the lifecycle; pending|queued -> running is the worker's start,
\* and a job that has not reached a terminal state may be cancelled
LifecycleEdges ==
    { <<"pending", "queued">>, <<"queued", "pending">>,
      <<"pending", "running">>, <<"queued", "running">>,
      <<"running", "paused">>, <<"paused", "running">>,
      <<"running", "completed">>, <<"running", "failed">>, <<"running", "cancelled">>,
      <<"pending", "cancelled">>, <<"queued", "cancelled">>, <<"paused", "cancelled">> }

\* C7: every change of a job's stored status follows an edge of the lifecycle.
C7_StatusFollowsEdges ==
    [][\A j \in rows :
          store'[j].status # store[j].status
              => <<store[j].status, store'[j].status>> \in LifecycleEdges]_vars

\* C8: a worker task delivered a job id whose job is absent or already terminal
\* returns without changing the job and without a vendor call.
C8_TerminalOrAbsentIsLeftAlone ==
    [][\A w \in Workers :
          (/\ pc[w] = "start" /\ pc'[w] # "start"
           /\ (wk[w].job_id \notin rows
                  \/ store[wk[w].job_id].status \in TerminalStatus))
              => (store' = store /\ pc'[w] = "returned" /\ ~DispatchesCall(w))]_vars

\* C9: for every job kind, the worker that loads a pending or queued job commits
\* status running with started_at stamped before it goes on.
C9_StartSetsRunning ==
    [][\A w \in Workers :
          (/\ pc[w] = "start" /\ pc'[w] # "start"
           /\ wk[w].job_id \in rows
           /\ store[wk[w].job_id].status \in {"pending", "queued"})
              => (/\ store'[wk[w].job_id].status = "running"
                  /\ store'[wk[w].job_id].started_at)]_vars

\* C10: when a stage (verify or scrape) leaves its task with an uncaught error,
\* the job's stored status is failed, error_message is populated, and the error
\* is raised to the broker.
C10_ErrorMarksFailed ==
    [][\A w \in Workers :
          (pc[w] # "raised" /\ pc'[w] = "raised")
              => (/\ store'[wk[w].job_id].status = "failed"
                  /\ store'[wk[w].job_id].error_message # None
                  /\ wk'[w].exc # << >>)]_vars

C12_CountersNeverDecrease ==
    [][\A j \in rows :
          /\ store'[j].processed_items >= store[j].processed_items
          /\ store'[j].failed_items >= store[j].failed_items]_vars

\* a step in which worker w of verify_leads_batch takes the next lead
LeadTaken(w) ==
    /\ pc[w] = "loop" /\ wk[w].task = "verify_leads_batch"
    /\ wk[w].i < Len(wk[w].items)
    /\ (wk'[w].i = wk[w].i + 1 \/ pc'[w] = "probe")

NextLead(w) == wk[w].items[wk[w].i + 1]

HasPermutations(lead) ==
    generate(lead.first_name, lead.last_name, lead._domain, DEFAULT_MAX_PERMUTATIONS) # << >>

\* C18: once a pattern was learned for a domain, a later lead on that domain
\* (with any name that has permutations) is probed first on that pattern
\* applied to its name: when the vendor answers valid on the first probe, the
\* verified address is the pattern's address and one verify call was made.
C18_KnownPatternProbedFirst ==
    [][\A w \in Workers :
          (/\ LeadTaken(w)
           /\ wk[w].domain_patterns[NextLead(w)._domain] # None
           /\ HasPermutations(NextLead(w))
           /\ wk'[w].calls = wk[w].calls + 1
           /\ Len(wk'[w].verified_leads) = Len(wk[w].verified_leads) + 1)
              => LET lead == NextLead(w)
                     first == _normalize_name(strip(lower(lead.first_name), " "))
                     last == _normalize_name(strip(lower(lead.last_name), " "))
                 IN wk'[w].verified_leads[Len(wk'[w].verified_leads)].email =
                        _apply_pattern(wk[w].domain_patterns[lead._domain],
                                       first, last, lead._domain)]_vars

\* C19 as stated: once a domain is in catch_all_domains, every later lead on
\* that domain causes exactly one verify call.
C19_CatchAllOneCall ==
    [][\A w \in Workers :
          (LeadTaken(w) /\ NextLead(w)._domain \in wk[w].catch_all_domains)
              => (wk'[w].i = wk[w].i + 1 /\ wk'[w].calls = wk[w].calls + 1)]_vars

\* C19 amended: once a domain is in catch_all_domains, a later lead on that
\* domain causes exactly one verify call when it has permutations and the
\* domain is not in dead_domains, and no verify call otherwise.
C19_CatchAllOneCallWhenProbed ==
    [][\A w \in Workers :
          (LeadTaken(w) /\ NextLead(w)._domain \in wk[w].catch_all_domains)
              => /\ wk'[w].i = wk[w].i + 1
                 /\ wk'[w].calls =
                       IF HasPermutations(NextLead(w))
                          /\ NextLead(w)._domain \notin wk[w].dead_domains
                       THEN wk[w].calls + 1 ELSE wk[w].calls]_vars

\* C19 witness: the first lead made the domain catch-all with one call, the
\* second lead on the domain was handled with one call
C19_Witness ==
    \E w \in Workers :
        /\ "acme.com" \in wk[w].catch_all_domains /\ wk[w].dead_domains = {}
        /\ wk[w].i = 2 /\ wk[w].calls = 2
        /\ wk[w].items[1]._domain = "acme.com" /\ wk[w].items[2]._domain = "acme.com"

\* C20: once a domain is in dead_domains, every later lead on that domain is
\* counted failed and causes no verify call.
C20_DeadDomainSkipped ==
    [][\A w \in Workers :
          (LeadTaken(w) /\ NextLead(w)._domain \in wk[w].dead_domains)
              => /\ wk'[w].i = wk[w].i + 1
                 /\ wk'[w].calls = wk[w].calls
                 /\ wk'[w].failed = wk[w].failed + 1]_vars

\* C20 witness: the first lead made dead.test dead with one call, the second
\* lead on dead.test was counted failed without a call
C20_Witness ==
    \E w \in Workers :
        /\ "dead.test" \in wk[w].dead_domains
        /\ wk[w].items # << >> /\ wk[w].i = 2
        /\ wk[w].items[1]._domain = "dead.test" /\ wk[w].items[2]._domain = "dead.test"
        /\ wk[w].calls = 1 /\ wk[w].failed = 2

\* C13: verify issues at most 3 HTTP requests; after the k-th 429 (k = 1, 2) it
\* sleeps 31 s * 2^(k-1) before it retries; when the third request is answered
\* 429 it returns status unknown with is_rate_limited, and is_rate_limited is
\* set in no other returned result.
C13_RetryPolicy ==
    [][\A c \in Coroutines :
          /\ co'[c].requests <= 3
          /\ (co[c].pc = "request" /\ co'[c].pc # "request" /\ co'[c].outcome = "429")
                => IF co'[c].requests < 3
                   THEN /\ co'[c].pc = "backoff"
                        /\ co'[c].wake = now + 31000 * (2 ^ (co'[c].requests - 1))
                   ELSE /\ co'[c].pc = "returned"
                        /\ co'[c].result[1].status = "unknown"
                        /\ co'[c].result[1].is_rate_limited
          /\ (co[c].pc = "backoff" /\ co'[c].pc # "backoff") => now >= co[c].wake
          /\ (co'[c].pc = "returned" /\ co'[c].result[1].is_rate_limited)
                => (co'[c].outcome = "429" /\ co'[c].requests = 3)]_vars

\* C13 witness: a call that was answered 429 three times has returned the
\* rate-limited result, 31 s + 62 s after its first request
C13_Witness ==
    \E c \in Coroutines :
        /\ co[c].pc = "returned" /\ co[c].requests = 3 /\ co[c].outcome = "429"
        /\ co[c].result[1].is_rate_limited
        /\ now >= 93000

\* C14: every HTTP request of a verify call, retries included, follows its own
\* pass through the limiter, which appends exactly one timestamp: a call has
\* recorded one timestamp per request sent, plus one when it is about to send.
C14_OneTimestampPerRequest ==
    [][\A c \in Coroutines :
          /\ co'[c].recorded = co'[c].requests + (IF co'[c].pc = "request" THEN 1 ELSE 0)
          /\ (co'[c].recorded = co[c].recorded + 1)
                => (/\ co'[c].pc = "request"
                    /\ timestamps' = Append(Purge(timestamps, now), now))]_vars

\* C14 witness: the retry after a 429 has passed the limiter again and is
\* about to be sent with a second timestamp recorded
C14_Witness ==
    \E c \in Coroutines :
        /\ co[c].pc = "request" /\ co[c].retry_count = 1
        /\ co[c].requests = 1 /\ co[c].recorded = 2
        /\ timestamps # << >> /\ timestamps[Len(timestamps)] = now /\ now >= 31000

\* C15: only a 429 is retried: on 401/403, a timeout, another HTTP error status
\* or another exception, verify returns after that request, with status
\* invalid for a timeout and unknown for the others.
C15_OnlyRateLimitRetried ==
    [][\A c \in Coroutines :
          /\ (co[c].pc = "request" /\ co'[c].pc = "backoff") => co'[c].outcome = "429"
          /\ (co[c].pc = "request" /\ co'[c].pc # "request"
                  /\ co'[c].outcome \in {"401", "403", "500", "timeout", "error"})
                => /\ co'[c].pc = "returned"
                   /\ co'[c].requests = co[c].requests + 1
                   /\ co'[c].result[1].status =
                         (IF co'[c].outcome = "timeout" THEN "invalid" ELSE "unknown")
                   /\ ~co'[c].result[1].is_rate_limited]_vars

\* C15 witness: a call whose single request timed out has returned invalid
C15_Witness ==
    \E c \in Coroutines :
        /\ co[c].pc = "returned" /\ co[c].outcome = "timeout"
        /\ co[c].requests = 1 /\ co[c].retry_count = 0
        /\ co[c].result[1].status = "invalid"

\* C16: the decoder maps every answer whose lower-cased message is "no mx" to
\* status invalid, not deliverable, mx_found false, with the no-MX-records
\* reason, whatever the code is.
C16_NoMxIsInvalid ==
    (decoded # << >> /\ StrLower(OrEmpty(data.message)) = "no mx")
        => /\ decoded[1].status = "invalid"
           /\ ~decoded[1].is_deliverable
           /\ ~decoded[1].mx_found
           /\ decoded[1].reason = "No MX records found for domain"

RecognisedMessages ==
    {"accepted", "limited", "catch-all", "rejected", "no mx", "mx error", "timeout",
     "spam block"}

\* C17: the decoder maps an answer with code ok and a message that is none of
\* the recognised messages to status valid, deliverable, not catch-all, with
\* the message passed through as the reason; the missing-MX fallback does not
\* apply to it.
C17_OkOtherIsValid ==
    (/\ decoded # << >>
     /\ StrLower(OrEmpty(data.code)) = "ok"
     /\ StrLower(OrEmpty(data.message)) \notin RecognisedMessages)
        => /\ decoded[1].status = "valid"
           /\ decoded[1].is_deliverable
           /\ ~decoded[1].is_catch_all
           /\ decoded[1].reason = (IF OrEmpty(data.message) = "" THEN None ELSE data.message)

\* a step in which worker w of verify_leads_batch makes a verify call
ProbeStep(w) ==
    /\ wk[w].task = "verify_leads_batch" /\ pc[w] \in {"loop", "probe"}
    /\ wk'[w].calls = wk[w].calls + 1

\* the lead's processing ends in this step
LeadEnds(w) == pc'[w] = "loop" /\ wk'[w].i = wk[w].i + 1

\* C21: whenever the vendor's answer to a probe for a lead on domain D carries
\* message "no mx", the lead's processing ends with D in dead_domains, the lead
\* counted failed, and no further candidate of the lead probed.
C21_NoMxMakesDomainDead ==
    [][\A w \in Workers :
          (ProbeStep(w) /\ wk'[w].last_no_mx)
              => /\ LeadEnds(w)
                 /\ NextLead(w)._domain \in wk'[w].dead_domains
                 /\ wk'[w].failed = wk[w].failed + 1]_vars

\* C22: every entry of verified_leads is the address of a verify call that
\* returned valid, one entry at most per lead; a lead whose probe returned
\* catch_all gets no entry, is counted failed, and its domain is in
\* catch_all_domains.
C22_VerifiedMeansValid ==
    [][\A w \in Workers :
          /\ (wk[w].task = "verify_leads_batch"
                  /\ wk'[w].verified_leads # wk[w].verified_leads /\ pc'[w] \notin Exited)
                => /\ ProbeStep(w) /\ LeadEnds(w)
                   /\ wk'[w].last_status = "valid"
                   /\ Len(wk'[w].verified_leads) = Len(wk[w].verified_leads) + 1
                   /\ SubSeq(wk'[w].verified_leads, 1, Len(wk[w].verified_leads))
                         = wk[w].verified_leads
                   /\ LET entry == wk'[w].verified_leads[Len(wk'[w].verified_leads)]
                          probed == IF pc[w] = "probe" THEN Head(wk[w].permutations)
                                    ELSE Head(Candidates(wk[w], NextLead(w)))
                      IN /\ entry.email = probed
                         /\ entry.first_name = NextLead(w).first_name
                         /\ entry.last_name = NextLead(w).last_name
                         /\ entry.website = NextLead(w).website
                   /\ wk'[w].failed = wk[w].failed
          /\ (ProbeStep(w) /\ wk'[w].last_status = "catch_all")
                => /\ LeadEnds(w)
                   /\ wk'[w].verified_leads = wk[w].verified_leads
                   /\ wk'[w].failed = wk[w].failed + 1
                   /\ NextLead(w)._domain \in wk'[w].catch_all_domains]_vars

\* C22 witness: of two leads handled, the first verified valid and the second
\* was answered catch-all
C22_Witness ==
    \E w \in Workers :
        /\ wk[w].i = 2 /\ Len(wk[w].verified_leads) = 1
        /\ wk[w].verified_leads[1].first_name = wk[w].items[1].first_name
        /\ wk[w].last_status = "catch_all" /\ wk[w].failed = 1
        /\ wk[w].items[2]._domain \in wk[w].catch_all_domains

\* C23: in a bulk-verify-leads run, whenever the number of leads handled so far
\* is a positive multiple of 10 and a further lead is still to be handled, the
\* stored counters equal the run's tallies, whatever the outcome of the tenth
\* lead was (verified, failed, dead-domain skip, no permutations).
C23_FlushEveryTen ==
    \A w \in Workers :
        (/\ wk[w].task = "verify_leads_batch" /\ pc[w] = "loop"
         /\ wk[w].processed > 0 /\ wk[w].processed % PROGRESS_EVERY = 0
         /\ wk[w].i < Len(wk[w].items))
            => /\ store[wk[w].job_id].processed_items = wk[w].processed
               /\ store[wk[w].job_id].failed_items = wk[w].failed

\* the normalised names generate works on
CallFirst == _normalize_name(strip(lower(call.first_name), " "))

CallLast == _normalize_name(strip(lower(call.last_name), " "))

\* the least index of a common pattern whose address is email (0: none)
PatternIndex(email) ==
    LET ks == {k \in 1..Len(COMMON_PATTERNS) :
                 _apply_pattern(COMMON_PATTERNS[k], CallFirst, CallLast, call.domain) = email}
    IN IF ks = {} THEN 0 ELSE CHOOSE k \in ks : \A m \in ks : k <= m

\* C24: generate returns at most max_permutations addresses, pairwise distinct,
\* the address of the domain's known pattern (when one exists) first and the
\* others in the order of the pattern list.
C24_GenerateBoundedDistinctOrdered ==
    generated # << >> =>
        LET out == generated[1]
            from == IF call.known_pattern # None THEN 2 ELSE 1
        IN /\ Len(out) <= call.max_permutations
           /\ \A a, b \in 1..Len(out) : a # b => out[a] # out[b]
           /\ (call.known_pattern # None /\ out # << >>)
                 => out[1] = _apply_pattern(call.known_pattern, CallFirst, CallLast,
                                            call.domain)
           /\ \A a \in from..Len(out) : PatternIndex(out[a]) > 0
           /\ \A a, b \in from..Len(out) :
                 a < b => PatternIndex(out[a]) < PatternIndex(out[b])

\* C24 witness: a list cut to max_permutations = 3 whose first entry is the
\* address of the known pattern {last}.{first}
C24_Witness ==
    /\ generated # << >> /\ Len(generated[1]) = 3 /\ call.max_permutations = 3
    /\ call.known_pattern = "{last}.{first}"
    /\ generated[1][1].local = <<"b", "o", ".", "a", "d", "a">>

\* C25: without a known pattern, detect_pattern on any entry of the list that
\* generate returned yields a pattern, and applying that pattern to the same
\* names and domain gives the entry back.
C25_DetectInvertsGenerate ==
    (detected # << >> /\ call.known_pattern = None) =>
        /\ detected[1].pattern # None
        /\ _apply_pattern(detected[1].pattern, CallFirst, CallLast, call.domain)
              = generated[1][detected[1].k]

\* C25 witness: for the one-letter names "b" and "o" the third entry "b" of the
\* list is detected as {first}, the fourth pattern
C25_Witness ==
    /\ detected # << >> /\ call.known_pattern = None
    /\ call.first_name = <<"b">> /\ call.last_name = <<"o">>
    /\ detected[1].k = 3 /\ detected[1].pattern = "{first}"

\* C27: a cancel of a job that is not terminal sets the job's status to
\* cancelled and cancels exactly the tasks of that job that are pending; tasks
\* in any other status and tasks of other jobs stay as they are.
C27_CancelCancelsPendingTasks ==
    [][\A j \in JobIds :
          (j \in rows /\ store[j].status \notin TerminalStatus /\ store'[j] # store[j])
              => /\ store'[j].status = "cancelled"
                 /\ \A t \in TaskIds :
                       tasks'[t] = IF tasks[t].job_id = j /\ tasks[t].status = "pending"
                                   THEN [tasks[t] EXCEPT !.status = "cancelled"]
                                   ELSE tasks[t]]_vars

\* C27 witness: job j1 is cancelled, its pending task t1 was cancelled with it
\* (never attempted), and t2, a running task of j1, is still running
C27_Witness ==
    /\ store["j1"].status = "cancelled"
    /\ tasks["t1"].job_id = "j1" /\ tasks["t1"].status = "cancelled"
    /\ tasks["t1"].attempts = 0
    /\ tasks["t2"].job_id = "j1" /\ tasks["t2"].status = "running"

\* C28: no task's attempts exceeds its max_attempts, after any sequence of
\* update_task_status and retry_failed_tasks calls.
C28_AttemptsWithinMax ==
    \A t \in TaskIds : tasks[t].attempts <= tasks[t].max_attempts

\* C29: retry_failed_tasks(j) moves to pending exactly the tasks of job j that
\* are failed with attempts < max_attempts and returns their number; every
\* other task, a failed one with attempts >= max_attempts included, is unchanged.
C29_RetryOnlyRetryable ==
    [][retried' # << >> =>
          \E j \in TaskJobIds :
             LET eligible == {t \in TaskIds : /\ tasks[t].job_id = j
                                              /\ tasks[t].status = "failed"
                                              /\ tasks[t].attempts < tasks[t].max_attempts}
             IN /\ retried'[1] = Cardinality(eligible)
                /\ \A t \in eligible : tasks'[t] = [tasks[t] EXCEPT !.status = "pending"]
                /\ \A t \in TaskIds \ eligible : tasks'[t] = tasks[t]]_vars

\* C29 witness: a retry returned 1: t1, failed once, is pending again, while t2,
\* failed with its three attempts used up, is still failed
C29_Witness ==
    /\ retried = <<1>>
    /\ tasks["t1"].job_id = "j1" /\ tasks["t1"].status = "pending"
    /\ tasks["t1"].attempts = 1
    /\ tasks["t2"].job_id = "j1" /\ tasks["t2"].status = "failed"
    /\ tasks["t2"].attempts = tasks["t2"].max_attempts

\* C26: a webhook POST that fails or times out leaves the stored job, which is
\* completed, as it is (status, result, counters), and the task returns
\* without an exception.
C26_WebhookFailureSwallowed ==
    [][\A w \in Workers :
          (pc[w] = "webhook" /\ pc'[w] # "webhook" /\ wk'[w].webhook = "failed")
              => /\ store' = store
                 /\ store'[wk[w].job_id].status = "completed"
                 /\ pc'[w] = "returned"
                 /\ wk'[w].exc = << >>]_vars

\* C26 witness: a task that returned after its webhook POST failed, the job
\* completed with its result
C26_Witness ==
    \E w \in Workers :
        /\ pc[w] = "returned" /\ wk[w].webhook = "failed"
        /\ store[wk[w].job_id].status = "completed"
        /\ store[wk[w].job_id].result # << >>

\* C30: every dequeue signal at the broker is for a job whose row is committed,
\* so that the worker receiving it finds the job.
C30_CommittedBeforeSignal ==
    \A msg \in broker : msg[2] \in rows

\* C31: once find_domain has returned for a non-blank company name, every
\* later call with the same cache key returns at once, without an MX probe,
\* the result that was returned before.
C31_CachedResultRepeats ==
    [][\A c \in Coroutines :
          (/\ fd[c].pc = "idle" /\ fd'[c].pc # "idle"
           /\ ~Blank(fd'[c].company_name)
           /\ returns[CacheKey(fd'[c].company_name)] # {})
              => /\ fd'[c].pc = "returned"
                 /\ returns[CacheKey(fd'[c].company_name)] = {fd'[c].result}]_vars

\* C31, amended: once find_domain has returned for a non-blank company name,
\* every later call with the same cache key returns at once, without an MX
\* probe, a result returned before for that key; it is the one result returned
\* before unless two calls have probed for that key at the same time.
C31_CachedResultRepeatsUnlessRaced ==
    [][\A c \in Coroutines :
          (/\ fd[c].pc = "idle" /\ fd'[c].pc # "idle"
           /\ ~Blank(fd'[c].company_name)
           /\ returns[CacheKey(fd'[c].company_name)] # {})
              => /\ fd'[c].pc = "returned"
                 /\ fd'[c].result \in returns[CacheKey(fd'[c].company_name)]
                 /\ CacheKey(fd'[c].company_name) \notin raced
                       => returns[CacheKey(fd'[c].company_name)] = {fd'[c].result}]_vars

\* C31 witness: a call for " ada labs " was answered from the cache with the
\* domain ada.com found by the earlier call for that key
C31_Witness ==
    \E c \in Coroutines :
        /\ fd[c].pc = "returned" /\ fd[c].hit
        /\ fd[c].company_name = <<" ", "a", "d", "a", " ", "l", "a", "b", "s", " ">>
        /\ fcalls = 2 /\ cache[<<"a", " ", "b">>] = Miss
        /\ fd[c].result = Domain(<<"a", "d", "a">>, ".com")
        /\ returns[CacheKey(fd[c].company_name)] = {fd[c].result}

\* C32: every base given to an MX probe has at least 3 characters.
C32_ProbedBasesAtLeastThree ==
    \A base \in probes : Len(base) >= 3

\* C33: an export of a completed bulk-verify-leads job that has verified leads
\* answers 200 with those verified leads.
C33_ExportReturnsVerifiedLeads ==
    [][\A j \in JobIds :
          (/\ response'.endpoint = "export_job_results"
           /\ j \in rows /\ store[j].status = "completed"
           /\ store[j].result # << >>
           /\ "verified_leads" \in DOMAIN store[j].result[1]
           /\ store[j].result[1].verified_leads # << >>)
              => /\ response'.code = 200
                 /\ response'.profiles = store[j].result[1].verified_leads]_vars

\* C34: a group-scrape submission whose member_urls is missing or empty is
\* answered 400; no job is created and no dequeue signal is sent.
C34_GroupWithoutUrlsRejected ==
    [][(/\ response'.endpoint = "scrape_linkedin_group"
        /\ response'.request \in {NullList, << >>})
           => /\ response'.code = 400
              /\ rows' = rows /\ uncommitted' = uncommitted /\ store' = store
              /\ broker' = broker]_vars

\* C34 witness: the 400 answer to a group-scrape submission with an empty
\* member_urls, no job and no signal existing
C34_Witness ==
    /\ response.endpoint = "scrape_linkedin_group" /\ response.code = 400
    /\ response.request = << >>
    /\ rows = {} /\ uncommitted = {} /\ broker = {}

\* C35: a successful bulk or group scrape submission of N URLs creates exactly
\* one job, with total_items = N and processed_items = failed_items = 0, sends
\* exactly one dequeue signal, for that job, and answers status queued with the
\* job's id and the total N.
C35_ScrapeSubmissionCreatesOneJob ==
    [][(/\ response'.endpoint \in {"scrape_bulk_profiles", "scrape_linkedin_group"}
        /\ response'.code = 200)
           => LET N == Len(response'.request)
                  j == response'.job_id
              IN /\ (rows' \cup uncommitted') \ (rows \cup uncommitted) = {j}
                 /\ store'[j].total_items = N
                 /\ store'[j].processed_items = 0 /\ store'[j].failed_items = 0
                 /\ broker' \ broker = {<<"scrape_batch_profiles", j>>}
                 /\ response'.status = "queued"
                 /\ response'.total = N]_vars

\* C35 witness: the answer to a group-scrape submission of two URLs
C35_Witness ==
    /\ response.endpoint = "scrape_linkedin_group" /\ response.code = 200
    /\ response.status = "queued" /\ response.total = 2 /\ response.job_id = "j1"
    /\ store["j1"].total_items = 2 /\ "j1" \in uncommitted
    /\ broker = {<<"scrape_batch_profiles", "j1">>}

\* the leads of one domain, in the order of the sequence
OfDomain(leads, d) == SelectSeq(leads, LAMBDA l : l._domain = d)

\* C36: in a bulk-verify-leads run the visiting order holds every input lead
\* exactly once, the leads of one domain in input order; the loop handles one
\* lead at a time and counts each handled lead once, as verified or as failed;
\* the final update stores processed_items = number of input leads and
\* failed_items = processed_items - |verified_leads|.
C36_EveryLeadHandledOnce ==
    [][\A w \in Workers :
          wk[w].task = "verify_leads_batch" =>
             /\ pc'[w] \in {"loop", "probe"} =>
                   LET loc == wk'[w]
                       input == WithDomain(loc.job.config.leads)
                   IN /\ Len(loc.items) = Len(input)
                      /\ \A d \in Domains : OfDomain(loc.items, d) = OfDomain(input, d)
                      /\ loc.processed = loc.i
                      /\ loc.failed = loc.i - Len(loc.verified_leads)
             /\ (pc[w] \in {"loop", "probe"} /\ pc'[w] \in {"loop", "probe"}) =>
                   /\ wk'[w].items = wk[w].items
                   /\ wk'[w].i \in {wk[w].i, wk[w].i + 1}
             /\ (pc[w] = "loop" /\ pc'[w] \in {"webhook", "returned"}) =>
                   LET row == store'[wk[w].job_id] IN
                   /\ wk[w].i = Len(wk[w].items)
                   /\ row.status = "completed"
                   /\ row.processed_items = Len(row.config.leads)
                   /\ row.failed_items
                        = row.processed_items - Len(row.result[1].verified_leads)]_vars

\* C36 witness: the completed job of three leads on two interleaved domains,
\* one lead verified and two failed
C36_Witness ==
    \E j \in rows :
        /\ store[j].status = "completed" /\ Len(store[j].config.leads) = 3
        /\ \E w \in Workers : wk[w].job_id = j /\ pc[w] = "returned"
        /\ WithDomain(store[j].config.leads)[1]._domain
             # WithDomain(store[j].config.leads)[2]._domain
        /\ store[j].processed_items = 3 /\ store[j].failed_items = 2
        /\ Len(store[j].result[1].verified_leads) = 1

\* C37: in the bulk-verify-leads stage a probe that returns valid, catch_all,
\* or invalid with a no-MX reason ends the lead, so no further verify call is
\* made for it; after any other result (invalid for another reason, unknown,
\* rate-limited) the next candidate is probed, or the lead ends when none is
\* left; each call consumes one candidate of the lead's list of at most 8.
C37_ProbingStopsAtFirstDecisiveResult ==
    [][\A w \in Workers :
          ProbeStep(w) =>
             LET candidates == Candidates(wk[w], NextLead(w))
                 remaining == IF pc[w] = "probe" THEN wk[w].permutations ELSE candidates
                 decisive == \/ wk'[w].last_status \in {"valid", "catch_all"}
                             \/ wk'[w].last_status = "invalid" /\ wk'[w].last_reason_no_mx
             IN /\ Len(candidates) <= Len(COMMON_PATTERNS) /\ Len(COMMON_PATTERNS) = 8
                /\ remaining # << >>
                /\ \E k \in 0..(Len(candidates) - 1) :
                      remaining = SubSeq(candidates, k + 1, Len(candidates))
                /\ decisive => LeadEnds(w)
                /\ (~decisive /\ Len(remaining) > 1) =>
                      /\ pc'[w] = "probe" /\ wk'[w].i = wk[w].i
                      /\ wk'[w].permutations = Tail(remaining)
                /\ (~decisive /\ Len(remaining) = 1) => LeadEnds(w)]_vars

\* C37 witness: a lead of eight candidates whose eighth probe was made after
\* seven indecisive results, and returned invalid for a reason other than no MX
C37_Witness ==
    \E w \in Workers :
        /\ wk[w].task = "verify_leads_batch" /\ pc[w] = "loop"
        /\ wk[w].i = 1 /\ Len(wk[w].items) = 1 /\ wk[w].calls = 8
        /\ Len(Candidates(wk[w], wk[w].items[1])) = 8
        /\ wk[w].last_status = "invalid" /\ ~wk[w].last_reason_no_mx
        /\ wk[w].failed = 1

\* the number of records whose status is not valid
NotValid(results) == Cardinality({k \in 1..Len(results) : results[k].status # "valid"})

\* C38: verify_emails_batch makes one verify call per input email, in input
\* order, each adding the record of that email to the results; on completion
\* the stored result holds one record per input email in input order,
\* processed_items is the number of input emails and failed_items the number
\* of records whose status is not valid.
C38_OneRecordPerEmail ==
    [][\A w \in Workers :
          wk[w].task = "verify_emails_batch" =>
             /\ (pc[w] = "loop" /\ pc'[w] = "loop") =>
                   LET loc == wk'[w] IN
                   /\ loc.items = loc.job.config.emails
                   /\ loc.calls = loc.i /\ Len(loc.results) = loc.i
                   /\ \A k \in 1..loc.i : loc.results[k].email = loc.items[k]
                   /\ loc.i \in {wk[w].i, wk[w].i + 1}
                   /\ loc.calls = wk[w].calls + (loc.i - wk[w].i)
                   /\ SubSeq(loc.results, 1, wk[w].i) = wk[w].results
             /\ (pc[w] = "loop" /\ pc'[w] \in {"webhook", "returned"}) =>
                   LET row == store'[wk[w].job_id]
                       emails == row.config.emails
                       results == row.result[1].results
                   IN /\ wk[w].calls = Len(emails)
                      /\ row.status = "completed"
                      /\ Len(results) = Len(emails)
                      /\ \A k \in 1..Len(emails) : results[k].email = emails[k]
                      /\ row.processed_items = Len(emails)
                      /\ row.failed_items = NotValid(results)]_vars

\* C38 witness: the completed job of two emails, the first valid and the
\* second not
C38_Witness ==
    \E j \in rows :
        /\ store[j].status = "completed" /\ Len(store[j].config.emails) = 2
        /\ \E w \in Workers :
              wk[w].job_id = j /\ wk[w].task = "verify_emails_batch" /\ pc[w] = "returned"
        /\ Len(store[j].result[1].results) = 2
        /\ store[j].result[1].results[1].status = "valid"
        /\ store[j].result[1].results[2].status = "unknown"
        /\ store[j].processed_items = 2 /\ store[j].failed_items = 1

\* C39: when process_member_urls is exhausted it has yielded one member per
\* input URL, in input order, also when the enrichment of some URL raised, and
\* the consumer's processed + failed equals the number of input URLs.
C39_OneMemberPerUrl ==
    gs.pc = "done" =>
        /\ Len(gs.yielded) = Len(gs.urls)
        /\ \A k \in 1..Len(gs.yielded) :
              gs.yielded[k].linkedin_url \in {gs.urls[k], _normalize_linkedin_url(gs.urls[k])}
        /\ gs.processed + gs.failed = Len(gs.urls)

\* C40: once every execution of the worker tasks has exited, no job that a
\* worker task was started for is left pending or running: its stored status
\* is completed, failed or cancelled.
C40_StartedJobEndsTerminal ==
    (\A v \in Workers : pc[v] \in Exited) =>
        \A w \in Workers :
            wk[w].job_id \in rows => store[wk[w].job_id].status \in TerminalStatus

====
